---- MODULE Spec2Model ----
(***************************************************************************)
(* Course-brochure extraction pipeline of the Robusta repository:          *)
(*   TextCleaner.clean_text            (text normalizer)                   *)
(*   CourseInfoExtractor               (boundary locator, assembler)       *)
(*   PDFLoader.load_pdf_file           (document builder)                  *)
(*                                                                         *)
(* A text is a sequence of lexemes.  A lexeme is a pair <<kind, width>>:   *)
(* kind names the string it stands for (Vietnamese words are written       *)
(* without diacritics, the diacritic form is given where the kind is       *)
(* introduced) and width is the number of characters of that string.       *)
(* Single characters the regular expressions of the source look at one by  *)
(* one (roman numeral letters, digits, punctuation) are lexemes of width   *)
(* 1, and so is a newline; a run of n blanks is one lexeme <<" ", n>>;      *)
(* <<"p", n>> is a word of n letters that no pattern of the source names.  *)
(* Letter case is not represented: every regular expression of the         *)
(* modelled code is compiled with re.IGNORECASE.                           *)
(***************************************************************************)
EXTENDS Integers, Sequences, FiniteSets, TLC

\* the CourseInfoExtractor instance every operation is called on: its
\* section_configs and the company_noise_patterns of its text_cleaner
VARIABLE extractor

(***************************************************************************)
(* Lexemes                                                                 *)
(***************************************************************************)
\* number of characters of the string a kind stands for
KindLen(k) ==
  CASE k = "Gioi thieu" -> 10   \* Giới thiệu
    [] k = "Tong quan" -> 9     \* Tổng quan
    [] k = "Thoi luong" -> 10   \* Thời lượng
    [] k = "Hinh thuc" -> 9     \* Hình thức
    [] k = "dao tao" -> 7       \* đào tạo
    [] k = "Muc tieu" -> 8      \* Mục tiêu
    [] k = "khoa hoc" -> 8      \* khóa học
    [] k = "Doi tuong" -> 9     \* Đối tượng
    [] k = "tham gia" -> 8      \* tham gia
    [] k = "Noi dung" -> 8      \* Nội dung
    [] k = "Yeu cau" -> 7       \* Yêu cầu
    [] k = "Dieu kien" -> 9     \* Điều kiện
    [] k = "hoc vien" -> 8      \* học viên
    [] k = "Module" -> 6
    [] k = "Chuong" -> 6        \* Chương
    [] k = "gio" -> 3           \* giờ
    [] k = "ngay" -> 4          \* ngày
    [] k = "tuan" -> 4          \* tuần
    [] k = "thang" -> 5         \* tháng
    [] k = "giup" -> 4          \* giúp
    [] k = "cung cap" -> 8      \* cung cấp
    [] k = "trang bi" -> 8      \* trang bị
    [] k = "co the" -> 6        \* có thể
    [] k = "nam" -> 3           \* nắm
    [] k = "hieu" -> 4          \* hiểu
    [] k = "se" -> 2            \* sẽ
    [] k = "Sau" -> 3
    [] k = "Developer" -> 9
    [] k = "Admin" -> 5
    [] k = "System" -> 6
    [] k = "Cloud" -> 5
    [] k = "Tang" -> 4          \* Tầng
    [] k = "Quan" -> 4          \* Quận
    [] k = "chinh" -> 5         \* chính
    [] k = "Tru so" -> 6        \* Trụ sở
    [] k = "Chi nhanh" -> 9     \* Chi nhánh
    [] k = "Head" -> 4
    [] k = "Office" -> 6
    [] k = "Hanoi" -> 5
    [] k = "City" -> 4
    [] k = "Ho Chi Minh" -> 11
    [] k = "Ho Chi Minh vn" -> 11   \* Hồ Chí Minh
    [] k = "Lau" -> 3           \* Lầu
    [] k = "Tp" -> 2
    [] k = "Ha Noi" -> 6        \* Hà Nội
    [] k = "Dist" -> 4
    [] k = "HCM" -> 3
    [] k = "Dong Da" -> 7
    [] k = "Website" -> 7
    [] k = "Email" -> 5
    [] k = "Hotline" -> 7
    [] k = "Tel" -> 3
    [] k = "Phone" -> 5
    [] k = "+84" -> 3
    [] k = "www" -> 3
    [] k = "Robusta" -> 7
    [] k = "vn" -> 2
    [] k = "Learn" -> 5
    [] k = "Page" -> 4
    [] k = "of" -> 2
    [] k = "Trang" -> 5
    [] k = "Technology" -> 10
    [] k = "Course" -> 6
    [] k = "VMware" -> 6
    [] k = "NSX" -> 3
    [] k = "BigData" -> 7
    [] k = "OpenStack" -> 9
    [] k = "97-99-101" -> 9
    [] k = "Lane 167" -> 8
    [] k = "Tay Son" -> 7       \* Tây Sơn
    [] k = "ve" -> 2            \* về
    [] k = "la" -> 2            \* là
    [] k = "va" -> 2            \* và
    [] k = "mo ta" -> 5         \* mô tả
    [] k = "thoi gian" -> 9     \* thời gian
    [] k = "trinh" -> 5         \* trình
    [] k = "Ket thuc" -> 8      \* Kết thúc
    [] k = "Trong boi canh" -> 14   \* Trong bối cảnh
    [] k = "khoa hoc alt" -> 8  \* khoá học (the other placement of the tone mark)
    [] k = "Introduction" -> 12
    [] k = "Overview" -> 8
    [] k = "Networking" -> 10
    [] k = "ABC" -> 3
    [] k = "to" -> 2
    [] k = "Hadoop" -> 6
    [] k = "Installation" -> 12
    [] k = "HDFS" -> 4
    [] k = "Components" -> 10
    [] k = "Quan tri" -> 8      \* Quản trị
    [] k = "Ky su" -> 5         \* Kỹ sư
    [] k = "Chuyen vien" -> 11  \* Chuyên viên
    [] k = "kien thuc" -> 9     \* kiến thức
    [] k = "kinh nghiem" -> 11  \* kinh nghiệm
    [] k = "Linux" -> 5
    [] k = "co ban" -> 6        \* cơ bản
    [] k = "nen tang" -> 8      \* nền tảng
    [] k = "Thong tin" -> 9     \* Thông tin
    [] k = "chi tiet" -> 8      \* chi tiết
    [] k = "tien quyet" -> 10   \* tiên quyết
    [] k = "truoc" -> 5         \* trước
    [] k = "vung" -> 4          \* vững
    [] k = "trien khai" -> 10   \* triển khai
    [] k = "du lieu" -> 7       \* dữ liệu
    [] k = "u lieu" -> 6        \* ữ liệu (what follows the d of "d ữ liệu")
    [] k = "gi" -> 2            \* the gi of "gi ờ"
    [] k = "hoc" -> 3           \* học
    [] k = "truc tuyen" -> 10   \* trực tuyến
    [] k = "giang vien" -> 10   \* giảng viên
    [] k = "Zoom" -> 4
    [] k = "oc" -> 2            \* ọc (what follows the h of "h ọc")
    [] OTHER -> 1               \* single characters: I V X . : , digits, d, h, ...

Tok(k) == <<k, KindLen(k)>>
Txt(ks) == [i \in 1..Len(ks) |-> Tok(ks[i])]
P(n) == <<"p", n>>
Sp(n) == <<" ", n>>
NL == <<"\n", 1>>
\* n capital letters I with a dot above (U+0130), and their lower case: each
\* becomes the two characters i and combining dot above (U+0307)
Idot(n) == <<"I-dot", n>>
idot(n) == <<"i-dot-above", 2 * n>>

Kind(tok) == tok[1]
Digits == {"0", "1", "2", "3", "4", "5"}
IsWs(tok) == Kind(tok) \in {" ", "\n"}
\* kinds whose string is made of letters (a-z, A-Z and the accented Vietnamese letters)
Punct == {".", ":", ",", "!", "?", "-", "(", ")", "bullet", "/", "--", " ", "\n", "+84", "@",
          "|", "copyright", "&", "*", "cut"}
IsWord(tok) == Kind(tok) \notin Punct /\ Kind(tok) \notin Digits
\* kinds whose first character is an ASCII letter ([A-Z] under IGNORECASE)
NonAsciiStart == {"Doi tuong", "dao tao", "Dieu kien", "u lieu", "o-grave", "o-dot", "oc",
                  "I-dot"}
AsciiStart(tok) == IsWord(tok) /\ Kind(tok) \notin NonAsciiStart

\* the element of a one-element set.  Only({e(v) : v \in {x}}) is e(x), with x
\* computed before e, as a statement of the source that assigns a variable is
\* executed before the statements that use it
Only(S) == CHOOSE y \in S : TRUE

\* kinds that are words of ASCII letters only
AsciiWords == {"p", "Module", "Developer", "Admin", "System", "Cloud", "ABC", "Overview",
               "Networking", "Introduction", "OpenStack", "Linux", "Hadoop", "HDFS",
               "Zoom"}

\* the least and the greatest element of a non-empty set of numbers
Min(S) == CHOOSE x \in S : \A y \in S : x <= y
Max(S) == CHOOSE x \in S : \A y \in S : x >= y

\* len(t): the number of characters of t
RECURSIVE Width(_)
Width(t) ==
  CASE Len(t) = 0 -> 0
    [] Len(t) = 1 -> t[1][2]
    [] OTHER -> Width(SubSeq(t, 1, Len(t) \div 2))
                  + Width(SubSeq(t, Len(t) \div 2 + 1, Len(t)))
\* the concatenation of a sequence of sequences
RECURSIVE Concat(_)
Concat(ss) ==
  CASE Len(ss) = 0 -> <<>>
    [] Len(ss) = 1 -> ss[1]
    [] OTHER -> Concat(SubSeq(ss, 1, Len(ss) \div 2))
                  \o Concat(SubSeq(ss, Len(ss) \div 2 + 1, Len(ss)))
\* the elements of a set of numbers in increasing order
Sorted(S) == [i \in 1..Cardinality(S) |->
                CHOOSE x \in S : Cardinality({y \in S : y < x}) = i - 1]
\* character offset of position p (the number of characters before lexeme p)
Off(t, p) == Width(SubSeq(t, 1, p - 1))

(***************************************************************************)
(* Regular expressions over lexemes (Python's re: leftmost match,          *)
(* alternatives in order, greedy and lazy repetition with backtracking).   *)
(* A regular expression is a sequence of elements [op, k, body].           *)
(***************************************************************************)
El(op, k, body) == << [op |-> op, k |-> k, body |-> body] >>
L(k) == El("lit", k, <<>>)                 \* the string of kind k
Lits(ks) == [i \in 1..Len(ks) |-> [op |-> "lit", k |-> ks[i], body |-> <<>>]]
C(c) == El("cls", c, <<>>)                 \* one character of class c
Lazy(c) == El("lazy", c, <<>>)             \* c*?
Greedy(c) == El("greedy", c, <<>>)         \* c*
Alt(alts) == El("alt", "", alts)           \* (?:a|b|...)
Opt(re) == El("alt", "", <<re, <<>>>>)     \* (?:re)?
Look(alts) == El("look", "", alts)         \* (?=a|b|...)
Eos == El("eos", "", <<>>)                 \* $ without re.MULTILINE
Eol == El("eol", "", <<>>)                 \* $ with re.MULTILINE
Bos == El("bos", "", <<>>)                 \* ^ without re.MULTILINE
Bol == El("bol", "", <<>>)                 \* ^ with re.MULTILINE
Ws0 == Greedy("ws")                        \* \s*
Ws1 == C("ws") \o Greedy("ws")             \* \s+
Dig1 == C("digit") \o Greedy("digit")      \* \d+
AnyLazy == Lazy("any")                     \* .*? with re.DOTALL
AnyGreedy == Greedy("any")                 \* .*  with re.DOTALL
DotLazy == Lazy("dot")                     \* .*? without re.DOTALL
DotGreedy == Greedy("dot")                 \* .*  without re.DOTALL

InClass(tok, c) ==
  CASE c = "any" -> TRUE
    [] c = "dot" -> Kind(tok) # "\n"
    [] c = "ws" -> IsWs(tok)
    [] c = "digit" -> Kind(tok) \in Digits
    [] c = "roman" -> Kind(tok) \in {"I", "V", "X"}
    [] c = "letter" -> IsWord(tok)
    [] c = "ascii" -> AsciiStart(tok)
    [] c = "nl" -> Kind(tok) = "\n"
    [] c = "i" -> Kind(tok) = "I"
    [] c = "v" -> Kind(tok) = "V"
    [] c = "asciiword" -> Kind(tok) \in AsciiWords /\ tok[2] >= 2
    [] OTHER -> FALSE

\* end of the longest run of class c starting at p
RunEnd(t, c, p) ==
  LET First(S) == IF S = {} THEN Len(t) + 1 ELSE Min(S)
  IN First({q \in p..Len(t) : ~InClass(t[q], c)})

\* M(re, t, p): the position after the match of re at position p of t that
\* Python's backtracking finds first, 0 when re does not match at p
RECURSIVE M(_, _, _), LazyM(_, _, _), GreedyM(_, _, _), AltM(_, _, _, _, _)
M(re, t, p) ==
  CASE re = <<>> -> p
    [] re[1].op = "lit" /\ p <= Len(t) /\ t[p] = Tok(re[1].k) -> M(Tail(re), t, p + 1)
    [] re[1].op = "cls" /\ p <= Len(t) /\ InClass(t[p], re[1].k) -> M(Tail(re), t, p + 1)
    [] re[1].op = "lazy" ->
         LazyM(Tail(re), t, {q \in p..RunEnd(t, re[1].k, p) : M(Tail(re), t, q) # 0})
    [] re[1].op = "greedy" ->
         GreedyM(Tail(re), t, {q \in p..RunEnd(t, re[1].k, p) : M(Tail(re), t, q) # 0})
    [] re[1].op = "alt" ->
         AltM(re[1].body, Tail(re), t, p,
              {i \in 1..Len(re[1].body) : M(re[1].body[i] \o Tail(re), t, p) # 0})
    [] re[1].op = "look" /\ (\E i \in 1..Len(re[1].body) : M(re[1].body[i], t, p) # 0) ->
         M(Tail(re), t, p)
    [] re[1].op = "eos" /\ (p = Len(t) + 1 \/ (p = Len(t) /\ t[p] = NL)) ->
         M(Tail(re), t, p)
    [] re[1].op = "eol" /\ (p = Len(t) + 1 \/ Kind(t[p]) = "\n") -> M(Tail(re), t, p)
    [] re[1].op = "bos" /\ p = 1 -> M(Tail(re), t, p)
    [] re[1].op = "bol" /\ (p = 1 \/ Kind(t[p - 1]) = "\n") -> M(Tail(re), t, p)
    [] OTHER -> 0
\* c*? followed by r, S being the ends of the runs of c after which r matches:
\* the match after the shortest of them
LazyM(r, t, S) == IF S = {} THEN 0 ELSE M(r, t, Min(S))
\* c* followed by r: the match after the longest of them
GreedyM(r, t, S) == IF S = {} THEN 0 ELSE M(r, t, Max(S))
\* (?:a|b|...) followed by r, S being the alternatives after which r matches:
\* the match through the first of them
AltM(alts, r, t, p, S) == IF S = {} THEN 0 ELSE M(alts[Min(S)] \o r, t, p)

\* re.search from position p: <<start, end>> of the leftmost match, <<0, 0>> if none
Search(re, t, p) ==
  LET Leftmost(S) == IF S = {} THEN <<0, 0>> ELSE <<Min(S), M(re, t, Min(S))>>
  IN Leftmost({q \in p..(Len(t) + 1) : M(re, t, q) # 0})
Found(s) == s[1] # 0
\* match.group(): the matched text
Group(t, s) == SubSeq(t, s[1], s[2] - 1)

\* re.sub(re, repl, t) with a constant replacement: every non-overlapping
\* match, left to right, is replaced by repl.  The state of the scan is
\* <<the text produced, the first position not consumed>>; SubAt is the step
\* at position q, m being M(re, t, q), and SubRange the steps at lo..hi
SubAt(repl, t, q, st, m) ==
  IF m > q THEN <<st[1] \o repl, m>> ELSE <<st[1] \o <<t[q]>>, q + 1>>
RECURSIVE SubRange(_, _, _, _, _, _)
SubRange(re, repl, t, lo, hi, st) ==
  CASE hi < st[2] -> st
    [] lo = hi -> SubAt(repl, t, lo, st, M(re, t, lo))
    [] OTHER -> Only({SubRange(re, repl, t, (lo + hi) \div 2 + 1, hi, left) :
                        left \in {SubRange(re, repl, t, lo, (lo + hi) \div 2, st)}})
Sub(re, repl, t) ==
  IF t = <<>> THEN <<>> ELSE SubRange(re, repl, t, 1, Len(t), << <<>>, 1 >>)[1]

\* str.strip()
LStrip(t) ==
  LET From(S) == IF S = {} THEN <<>> ELSE SubSeq(t, Min(S), Len(t))
  IN From({q \in 1..Len(t) : ~IsWs(t[q])})
RStrip(t) ==
  LET UpTo(S) == IF S = {} THEN <<>> ELSE SubSeq(t, 1, Max(S))
  IN UpTo({q \in 1..Len(t) : ~IsWs(t[q])})
Strip(t) == LStrip(RStrip(t))

(***************************************************************************)
(* TextCleaner (text_cleaner.py)                                           *)
(***************************************************************************)
\* the tails the noise patterns share: .*?(?=\n[A-Z...]|\n\n|$) and .*?(?=\n|$)
NoiseTailBlock == DotLazy \o Look(<<L("\n") \o C("ascii"), L("\n") \o L("\n"), Eol>>)
NoiseTailLine == DotLazy \o Look(<<L("\n"), Eol>>)
WwwRobustaVn == Lits(<<"www", ".", "Robusta", ".", "vn">>)
LearnRobustaVn == Lits(<<"Learn", "@", "Robusta", ".", "vn">>)
TruSoChinh == Lits(<<"Tru so", " ", "chinh">>)

\* the list TextCleaner.__init__ assigns to self.company_noise_patterns, in
\* its order
NoisePatterns == <<
  TruSoChinh \o NoiseTailBlock,
  L("Chi nhanh") \o NoiseTailBlock,
  Lits(<<"Head", " ", "Office">>) \o NoiseTailBlock,
  Lits(<<"Hanoi", " ", "Office">>) \o NoiseTailBlock,
  Lits(<<"Lau", " ">>) \o Dig1 \o NoiseTailBlock,
  Lits(<<"Tang", " ">>) \o Dig1 \o NoiseTailBlock,
  Dig1 \o L("-") \o Dig1 \o L("-") \o Dig1 \o Ws1 \o DotLazy \o L("Quan") \o NoiseTailLine,
  Lits(<<"Quan", " ">>) \o Dig1 \o DotLazy \o L("Tp") \o Opt(L(".")) \o Ws0
      \o L("Ho Chi Minh vn") \o NoiseTailLine,
  Lits(<<"P", ".">>) \o Ws0 \o DotLazy \o Lits(<<"Q", ".">>) \o Ws0 \o DotLazy
      \o L("Ha Noi") \o NoiseTailLine,
  Lits(<<"Dist", ".">>) \o Ws0 \o Dig1 \o DotLazy \o L("HCM") \o NoiseTailLine,
  Lits(<<"Dong Da", " ", "Dist">>) \o DotLazy \o L("Hanoi") \o NoiseTailLine,
  Lits(<<"Website", ":">>) \o NoiseTailLine,
  Lits(<<"Email", ":">>) \o NoiseTailLine,
  Lits(<<"Hotline", ":">>) \o NoiseTailLine,
  Lits(<<"Tel", ":">>) \o NoiseTailLine,
  Lits(<<"Phone", ":">>) \o NoiseTailLine,
  L("|") \o Ws0 \o Lits(<<"Hotline", ":">>) \o NoiseTailLine,
  L("+84") \o DotLazy \o C("digit") \o C("digit") \o C("digit") \o DotLazy
      \o C("digit") \o C("digit") \o C("digit") \o NoiseTailLine,
  WwwRobustaVn \o NoiseTailLine,
  LearnRobustaVn \o NoiseTailLine,
  Lits(<<"Page", " ">>) \o Dig1 \o Lits(<<" ", "of", " ">>) \o Dig1 \o NoiseTailLine,
  WwwRobustaVn \o Ws1 \o L("Page") \o NoiseTailLine,
  Lits(<<"Trang", " ">>) \o Dig1 \o NoiseTailLine,
  L("copyright") \o NoiseTailLine,
  TruSoChinh \o DotLazy \o WwwRobustaVn,
  L("Chi nhanh") \o DotLazy \o LearnRobustaVn,
  L("Robusta") \o NoiseTailLine,
  L("Robusta") \o DotLazy \o L("Technology") \o NoiseTailLine >>

\* TextCleaner(): the instance as its constructor leaves it
TextCleaner == [company_noise_patterns |-> NoisePatterns]
\* self.company_noise_patterns, as the methods of the cleaner read it
company_noise_patterns == extractor.text_cleaner.company_noise_patterns

\* fixes: the entries of the table whose fragments are lexemes of the model
\* ('h ọc': 'học', 'd ữ liệu': 'dữ liệu', 'gi ờ': 'giờ'), in the order of the table
fixes == <<
  <<Lits(<<"h", " ", "oc">>), Txt(<<"hoc">>)>>,
  <<Lits(<<"gi", " ", "o-grave">>), Txt(<<"gio">>)>>,
  <<Lits(<<"d", " ", "u lieu">>), Txt(<<"du lieu">>)>> >>

\* the kinds that start with a character of the second group of each of the
\* five generic patterns: [ọệấởảắằẳẵặ], [ụũúùűùử], [ịĩíìỉ], [ỗốồổộ], [ỹýỳỷỵ]
DiacriticStart == << {"o-dot", "oc"}, {"u-dot"}, {"i-dot"}, {"o-circ-dot"}, {"y-tilde"} >>

\* re.sub(r'([a-zA-Z...])\s+([...])', r'\1\2', t): the blanks between a letter
\* and a following diacritic-bearing character are deleted; the scan resumes
\* after that character
RECURSIVE GenericFix(_, _, _)
GenericFix(t, set, p) ==
  LET Matches(x, q) == IsWord(t[x]) /\ q > x + 1 /\ q <= Len(t) /\ Kind(t[q]) \in set
      Join(x, q) == IF t[q][2] = 1
                    THEN SubSeq(t, p, x) \o <<t[q]>> \o GenericFix(t, set, q + 1)
                    ELSE SubSeq(t, p, x) \o GenericFix(t, set, q)
      Next1(S) == IF S = {} THEN SubSeq(t, p, Len(t))
                  ELSE Join(Min(S), RunEnd(t, "ws", Min(S) + 1))
  IN Next1({x \in p..Len(t) : Matches(x, RunEnd(t, "ws", x + 1))})

RECURSIVE ApplyFixes(_, _), ApplyGeneric(_, _)
ApplyFixes(t, i) ==
  IF i > Len(fixes) THEN t
  ELSE Only({ApplyFixes(u, i + 1) : u \in {Sub(fixes[i][1], fixes[i][2], t)}})
ApplyGeneric(t, i) ==
  IF i > Len(DiacriticStart) THEN t
  ELSE Only({ApplyGeneric(u, i + 1) : u \in {GenericFix(t, DiacriticStart[i], 1)}})

fix_vietnamese_encoding(t) ==
  IF t = <<>> THEN <<>> ELSE Only({ApplyGeneric(u, 1) : u \in {ApplyFixes(t, 1)}})

\* course_keywords of replace_if_not_course: keyword.lower() in matched_text.lower()
course_keywords == {"khoa hoc", "Course", "Muc tieu", "objectives", "Gioi thieu",
                    "Noi dung", "content", "hoc vien", "students", "Yeu cau",
                    "VMware", "NSX", "BigData", "Cloud", "Thoi luong", "duration"}
HasCourseKeyword(m) == \E i \in 1..Len(m) : Kind(m[i]) \in course_keywords

\* the match is kept when it names a course keyword, and deleted otherwise
replace_if_not_course(m) == IF HasCourseKeyword(m) THEN m ELSE <<>>

\* re.sub(pattern, replace_if_not_course, cleaned, IGNORECASE | MULTILINE)
RECURSIVE SubNoise(_, _, _)
SubNoise(re, t, p) ==
  LET Replace(q, m) == SubSeq(t, p, q - 1) \o replace_if_not_course(SubSeq(t, q, m - 1))
                         \o SubNoise(re, t, m)
      Next1(S) == IF S = {} THEN SubSeq(t, p, Len(t))
                  ELSE Replace(Min(S), M(re, t, Min(S)))
  IN Next1({q \in p..Len(t) : M(re, t, q) > q})

\* the loop over the patterns: the patterns lo..hi applied in turn
RECURSIVE RemovePatterns(_, _, _)
RemovePatterns(t, lo, hi) ==
  IF lo = hi THEN SubNoise(company_noise_patterns[lo], t, 1)
  ELSE Only({RemovePatterns(u, (lo + hi) \div 2 + 1, hi) :
               u \in {RemovePatterns(t, lo, (lo + hi) \div 2)}})

company_blocks == <<
  L("Ho Chi Minh") \o AnyLazy \o Lits(<<"City", " ", "Head", " ", "Office">>)
      \o AnyLazy \o WwwRobustaVn,
  TruSoChinh \o AnyLazy \o WwwRobustaVn,
  L("Chi nhanh") \o AnyLazy \o LearnRobustaVn,
  L("Hanoi") \o Ws1 \o L("Office") \o AnyLazy \o WwwRobustaVn >>

RECURSIVE RemoveBlocks(_, _)
RemoveBlocks(t, i) ==
  IF i > Len(company_blocks) THEN t
  ELSE Only({RemoveBlocks(u, i + 1) : u \in {Sub(company_blocks[i], <<>>, t)}})

\* text.split('\n') and '\n'.join(lines)
SplitLines(t, p) ==
  LET Lines(nls, k) ==
        [i \in 1..(k + 1) |->
           SubSeq(t, IF i = 1 THEN p ELSE nls[i - 1] + 1,
                     IF i = k + 1 THEN Len(t) ELSE nls[i] - 1)]
      At(S) == Lines(Sorted(S), Cardinality(S))
  IN At({q \in p..Len(t) : t[q] = NL})
JoinLines(ls) ==
  Concat([i \in 1..(2 * Len(ls) - 1) |->
            IF i % 2 = 1 THEN ls[(i + 1) \div 2] ELSE <<NL>>])

course_structure_keywords == <<
  Lits(<<"I", ".">>) \o Ws0 \o L("Gioi thieu"),
  Lits(<<"I", "I", ".">>) \o Ws0 \o L("Thoi luong"),
  Lits(<<"I", "I", "I", ".">>) \o Ws0 \o L("Muc tieu"),
  Lits(<<"I", "V", ".">>) \o Ws0 \o L("Doi tuong"),
  Lits(<<"V", ".">>) \o Ws0 \o L("Yeu cau"),
  Lits(<<"V", "I", ".">>) \o Ws0 \o L("Noi dung"),
  L("khoa hoc"), L("Course"),
  L("Module") \o Ws0 \o Dig1,
  L("Chuong") \o Ws0 \o Dig1,
  L("VMware"), L("NSX"), L("BigData"), L("Cloud"), L("OpenStack") >>

\* isolated_patterns: ^.*?(?:a|b|...).*?$ matched against one line
isolated_patterns == <<
  Alt(<<Lits(<<"Head", " ", "Office">>), L("Chi nhanh"), L("Tru so")>>),
  Alt(<<L("+84"), L("(") \o L("+84") \o L(")")>>),
  Alt(<<Lits(<<"Tel", ":">>), Lits(<<"Phone", ":">>), Lits(<<"Hotline", ":">>)>>),
  Alt(<<Lits(<<"Website", ":">>), Lits(<<"Email", ":">>)>>),
  Alt(<<Lits(<<"www", ".", "Robusta">>), Lits(<<"Learn", "@", "Robusta">>)>>),
  Alt(<<L("97-99-101"), L("Lane 167"), L("Tay Son")>>),
  Alt(<<Lits(<<"Dist", ".">>), L("Quan"), Lits(<<"HCM", " ", "City">>), L("Ha Noi")>>) >>

AnyMatches(res, line) == \E i \in 1..Len(res) : Found(Search(res[i], line, 1))

\* the line-by-line pass: the lines kept, each stripped
FilterNoiseLines(ls) ==
  LET Kept(line) ==
        IF line = <<>> THEN <<>>
        ELSE IF AnyMatches(course_structure_keywords, line) THEN <<line>>
        ELSE IF AnyMatches(isolated_patterns, line) THEN <<>>
        ELSE <<line>>
  IN Concat([i \in 1..Len(ls) |-> Kept(Strip(ls[i]))])

remove_company_noise(t) ==
  LET Lines(cleaned) == JoinLines(FilterNoiseLines(SplitLines(cleaned, 1)))
      Patterns(cleaned) ==
        Only({Lines(c) : c \in {RemovePatterns(cleaned, 1, Len(company_noise_patterns))}})
  IN Only({Patterns(c) : c \in {RemoveBlocks(t, 1)}})

\* re.sub(r'[^\w\s...\.\,\!\?\-\•\:\(\)]', ' ', text): every character outside
\* the permitted set becomes one blank
NotPermitted == {"--", "/", "@", "|", "copyright", "&", "*"}
FilterCharacters(t) ==
  Concat([i \in 1..Len(t) |->
            IF Kind(t[i]) \in NotPermitted THEN <<Sp(1)>>
            ELSE IF Kind(t[i]) = "+84" THEN <<Sp(1), Tok("8"), Tok("4")>>
            ELSE <<t[i]>>])

normalize_whitespace(t) ==
  LET BlankLines(a) ==
        Sub(L("\n") \o Ws0 \o L("\n") \o Ws0 \o L("\n") \o Greedy("nl"), <<NL, NL>>, a)
  IN Only({Sub(L("\n") \o Ws1, <<NL>>, b) :
             b \in {BlankLines(a) : a \in {Sub(Ws1, <<Sp(1)>>, t)}}})

\* re.sub(r'(\d+)\.\s*', r'\1. ', text)
RECURSIVE StandardizeNumbering(_, _)
StandardizeNumbering(t, p) ==
  LET Matches(x, d) == d > x /\ d <= Len(t) /\ t[d] = Tok(".")
      Replace(d) == SubSeq(t, p, d) \o <<Sp(1)>>
                      \o StandardizeNumbering(t, RunEnd(t, "ws", d + 1))
      Next1(S) == IF S = {} THEN SubSeq(t, p, Len(t))
                  ELSE Replace(RunEnd(t, "digit", Min(S)))
  IN Next1({x \in p..Len(t) : Matches(x, RunEnd(t, "digit", x))})

standardize_formatting(t) ==
  Only({StandardizeNumbering(a, 1) :
          a \in {Sub(L("bullet") \o Ws0, <<Tok("bullet"), Sp(1)>>, t)}})

MinLineLen == 10
LongLineLen == 20
EndsProperly(line) == Kind(line[Len(line)]) \in {".", "!", "?", ")", ":"}
EndsWithEllipsis(line) ==
  Len(line) >= 3 /\ \A i \in 0..2 : line[Len(line) - i] = Tok(".")

FilterIncompleteLines(ls) ==
  LET Kept(line) ==
        IF line = <<>> THEN <<>>
        ELSE IF Width(line) < MinLineLen THEN <<>>
        ELSE IF Width(line) > LongLineLen /\ ~EndsProperly(line)
                /\ EndsWithEllipsis(line) THEN <<>>
        ELSE <<line>>
  IN Concat([i \in 1..Len(ls) |-> Kept(Strip(ls[i]))])

remove_incomplete_lines(t) == JoinLines(FilterIncompleteLines(SplitLines(t, 1)))

clean_text(t) ==
  IF t = <<>> THEN <<>>
  ELSE Only({Strip(f) :
               f \in {remove_incomplete_lines(e) :
               e \in {standardize_formatting(d) :
               d \in {normalize_whitespace(c) :
               c \in {FilterCharacters(b) :
               b \in {remove_company_noise(a) :
               a \in {fix_vietnamese_encoding(t)}}}}}}})

(***************************************************************************)
(* CourseInfoExtractor (course_extractor.py): the three fixed sections     *)
(***************************************************************************)
\* re.search over an ordered pattern list: the match of the first pattern that
\* matches, as <<index of the pattern, start, end>>, <<0, 0, 0>> if none does
RECURSIVE FirstMatch(_, _, _)
FirstMatch(res, t, i) ==
  IF i > Len(res) THEN <<0, 0, 0>>
  ELSE LET Try(s) == IF Found(s) THEN <<i, s[1], s[2]>> ELSE FirstMatch(res, t, i + 1)
       IN Try(Search(res[i], t, 1))
MatchText(t, f) == SubSeq(t, f[2], f[3] - 1)

\* re.sub('^...', '', t): a header matched at the start of t is cut off
CutPrefix(re, t) ==
  LET After(m) == IF m = 0 THEN t ELSE SubSeq(t, m, Len(t))
  IN After(M(re, t, 1))

RomanI == Lits(<<"I", ".">>)
RomanII == Lits(<<"I", "I", ".">>)
RomanIII == Lits(<<"I", "I", "I", ".">>)
RomanIV == Lits(<<"I", "V", ".">>)
RomanV == Lits(<<"V", ".">>)
RomanVI == Lits(<<"V", "I", ".">>)
RomanVII == Lits(<<"V", "I", "I", ".">>)
RomanVIII == Lits(<<"V", "I", "I", "I", ".">>)
KhoaHoc == Alt(<<L("khoa hoc"), L("khoa hoc alt")>>)
NumberDot == Dig1 \o L(".")
HeaderEnd == DotLazy \o L(":") \o Ws0        \* .*?:\s*

intro_patterns == <<
  RomanI \o Ws0 \o Alt(<<L("Gioi thieu"), L("Tong quan")>>) \o AnyLazy
      \o Look(<<RomanII, RomanIII, L("Thoi luong"), Eos>>),
  Alt(<<L("Gioi thieu"), L("Tong quan")>>) \o Opt(Ws1 \o L("ve")) \o Ws1 \o KhoaHoc
      \o AnyLazy \o Look(<<RomanII, L("Thoi luong"), L("Muc tieu"), Eos>>),
  Lits(<<"OpenStack", " ", "la">>) \o AnyLazy \o Look(<<RomanII, L("Thoi luong"), Eos>>),
  L("khoa hoc") \o AnyLazy \o L("cung cap") \o AnyLazy
      \o Look(<<RomanII, L("Thoi luong"), L("Muc tieu"), Eos>>),
  L("Trong boi canh") \o AnyLazy
      \o Look(<<RomanII, L("Thoi luong"), L("Muc tieu"), Eos>>) >>

duration_patterns == <<
  RomanII \o Ws0 \o L("Thoi luong") \o AnyLazy
      \o Look(<<RomanIII, RomanIV, L("Hinh thuc"), L("Muc tieu"), Eos>>),
  L("Thoi luong") \o Opt(Ws1 \o L("khoa hoc")) \o L(":") \o AnyLazy
      \o Alt(<<L("gio"), L("ngay"), L("tuan")>>) \o AnyLazy
      \o Look(<<RomanIII, RomanIV, L("Hinh thuc"), L("Muc tieu"), L("Doi tuong"), Eos>>) >>

MeaningfulEnd == AnyLazy \o Look(<<L("Muc tieu"), L("Doi tuong"), NumberDot, Eos>>)
meaningful_patterns == <<
  KhoaHoc \o AnyLazy \o Alt(<<L("cung cap"), L("giup"), L("trang bi")>>) \o MeaningfulEnd,
  C("asciiword") \o Lits(<<" ", "la">>) \o MeaningfulEnd,
  L("Trong boi canh") \o MeaningfulEnd >>

TongQuanKhoaHoc == Txt(<<"Tong quan", " ", "khoa hoc", ":", "\n">>)   \* "Tổng quan khóa học:\n"
ThoiLuongLabel == Txt(<<"Thoi luong", ":", "\n">>)                    \* "Thời lượng:\n"
\* "Thông tin giới thiệu và thời lượng khóa học."
Placeholder1 == Txt(<<"Thong tin", " ", "Gioi thieu", " ", "va", " ", "Thoi luong", " ",
                      "khoa hoc", ".">>)
\* "Thông tin mục tiêu và đối tượng khóa học."
Placeholder2 == Txt(<<"Thong tin", " ", "Muc tieu", " ", "va", " ", "Doi tuong", " ",
                      "khoa hoc", ".">>)
\* a variant of Placeholder3: the content slot is left without text when no
\* pattern matches
Placeholder3Blank == <<>>
\* "Nội dung khóa học: Thông tin chi tiết về chương trình học."
Placeholder3 == Txt(<<"Noi dung", " ", "khoa hoc", ":", " ", "Thong tin", " ", "chi tiet",
                      " ", "ve", " ", "Chuong", " ", "trinh", " ", "hoc", ".">>)

\* "\n\n".join(parts)
RECURSIVE JoinParts(_)
JoinParts(parts) ==
  IF parts = <<>> THEN <<>>
  ELSE IF Len(parts) = 1 THEN parts[1]
  ELSE parts[1] \o <<NL, NL>> \o JoinParts(Tail(parts))

MinSlotLen == 50

\* the part of a slot found by an ordered pattern list: the stripped match
\* with its headers cut off, <<>> when no pattern matches
intro_text(t) ==
  LET Body(f) ==
        IF f[1] = 0 THEN <<>>
        ELSE CutPrefix(Alt(<<L("Gioi thieu"), L("Tong quan")>>) \o HeaderEnd,
               CutPrefix(RomanI \o Ws0 \o Alt(<<L("Gioi thieu"), L("Tong quan")>>)
                           \o HeaderEnd, Strip(MatchText(t, f))))
  IN Body(FirstMatch(intro_patterns, t, 1))

duration_text(t) ==
  LET Body(f) ==
        IF f[1] = 0 THEN <<>>
        ELSE Sub(Lits(<<"Hinh thuc", " ", "dao tao">>) \o AnyGreedy, <<>>,
               Sub(RomanIII \o Ws0 \o L("Hinh thuc") \o AnyGreedy, <<>>,
                 CutPrefix(L("Thoi luong") \o HeaderEnd,
                   CutPrefix(RomanII \o Ws0 \o L("Thoi luong") \o HeaderEnd,
                             Strip(MatchText(t, f))))))
  IN Body(FirstMatch(duration_patterns, t, 1))

_extract_precise_section1(t) ==
  LET Parts(intro, duration) ==
        (IF intro # <<>> THEN << TongQuanKhoaHoc \o intro >> ELSE <<>>)
          \o (IF duration # <<>> THEN << ThoiLuongLabel \o duration >> ELSE <<>>)
      Meaningful(result, f) ==
        IF (result = <<>> \/ Width(Strip(result)) < MinSlotLen) /\ f[1] # 0
        THEN TongQuanKhoaHoc \o Strip(MatchText(t, f))
        ELSE result
      OrPlaceholder(result) == IF result # <<>> THEN result ELSE Placeholder1
  IN OrPlaceholder(Meaningful(JoinParts(Parts(intro_text(t), duration_text(t))),
                              FirstMatch(meaningful_patterns, t, 1)))

ObjectivesEnd == AnyLazy \o Look(<<RomanV, L("Doi tuong"), Eos>>)
objectives_patterns == <<
  RomanIV \o Ws0 \o L("Muc tieu") \o AnyLazy
      \o Look(<<RomanV, RomanVI, L("Doi tuong"), Eos>>),
  Lits(<<"Muc tieu", " ", "khoa hoc">>) \o AnyLazy
      \o Look(<<RomanV, L("Doi tuong"), L("Dieu kien"), Eos>>),
  Lits(<<"Ket thuc", " ", "khoa hoc">>) \o ObjectivesEnd,
  AnyLazy \o L("hoc vien") \o AnyLazy
      \o Alt(<<L("nam"), L("hieu"), L("co the"), L("se")>>) \o AnyLazy
      \o Look(<<L("Doi tuong"), L("Dieu kien"), L("Noi dung"), Eos>>) >>

audience_patterns == <<
  RomanIII \o Ws0 \o L("Doi tuong") \o AnyLazy
      \o Look(<<RomanIV, RomanV, L("Yeu cau"), L("Dieu kien"), L("Noi dung"), Eos>>),
  RomanV \o Ws0 \o L("Doi tuong") \o AnyLazy
      \o Look(<<RomanVI, RomanVII, L("Dieu kien"), L("Noi dung"), Eos>>),
  L("Doi tuong") \o Opt(Alt(<<Ws1 \o L("tham gia"), Ws1 \o L("hoc")>>)) \o AnyLazy
      \o Look(<<RomanIV, RomanV, RomanVI, L("Yeu cau"), L("Dieu kien"), L("Noi dung"), Eos>>),
  Lits(<<"Doi tuong", " ", "hoc">>) \o Ws0 \o L(":") \o AnyLazy
      \o Look(<<RomanIV, RomanV, L("Yeu cau"), L("Dieu kien"), L("Noi dung"), Eos>>) >>

prereq_patterns == <<
  RomanIV \o Ws0 \o Alt(<<L("Yeu cau"), L("Dieu kien")>>) \o AnyLazy
      \o Look(<<RomanV, RomanVI, L("Noi dung"), Eos>>),
  RomanVI \o Ws0 \o L("Dieu kien") \o AnyLazy
      \o Look(<<RomanVII, RomanVIII, L("Noi dung"), Eos>>),
  Alt(<<Lits(<<"Dieu kien", " ", "tien quyet">>),
        Lits(<<"Yeu cau", " ", "truoc", " ", "khoa hoc">>)>>) \o AnyLazy
      \o Look(<<RomanV, RomanVI, RomanVII, L("Noi dung"), Eos>>) >>

FallbackEnd == AnyLazy \o Look(<<L("Noi dung"), NumberDot, Eos>>)
fallback_patterns == <<
  AnyLazy \o Alt(<<L("Quan tri"), L("Admin"), L("Developer"), L("Ky su"), L("Chuyen vien")>>)
      \o FallbackEnd,
  AnyLazy \o Alt(<<L("kien thuc"), L("kinh nghiem"), L("Yeu cau")>>) \o AnyLazy
      \o Alt(<<L("Linux"), L("co ban"), L("nen tang")>>) \o FallbackEnd >>

MucTieuKhoaHoc == Txt(<<"Muc tieu", " ", "khoa hoc", ":", "\n">>)     \* "Mục tiêu khóa học:\n"
DoiTuongThamGia == Txt(<<"Doi tuong", " ", "tham gia", ":", "\n">>)   \* "Đối tượng tham gia:\n"
\* "Điều kiện tiên quyết:\n"
DieuKienTienQuyet == Txt(<<"Dieu kien", " ", "tien quyet", ":", "\n">>)
\* "Đối tượng và yêu cầu:\n"
DoiTuongVaYeuCau == Txt(<<"Doi tuong", " ", "va", " ", "Yeu cau", ":", "\n">>)

objectives_text(t) ==
  LET Body(f) ==
        IF f[1] = 0 THEN <<>>
        ELSE CutPrefix(L("Muc tieu") \o HeaderEnd,
               CutPrefix(RomanIV \o Ws0 \o L("Muc tieu") \o HeaderEnd,
                         Strip(MatchText(t, f))))
  IN Body(FirstMatch(objectives_patterns, t, 1))

audience_text(t) ==
  LET Body(f) ==
        IF f[1] = 0 THEN <<>>
        ELSE CutPrefix(L("Doi tuong") \o HeaderEnd,
               CutPrefix(Alt(<<RomanIII, RomanV>>) \o Ws0 \o L("Doi tuong") \o HeaderEnd,
                         Strip(MatchText(t, f))))
  IN Body(FirstMatch(audience_patterns, t, 1))

prereq_text(t) ==
  LET Body(f) ==
        IF f[1] = 0 THEN <<>>
        ELSE CutPrefix(Alt(<<L("Dieu kien"), L("Yeu cau")>>) \o HeaderEnd,
               CutPrefix(Alt(<<RomanIV, RomanVI>>) \o Ws0
                           \o Alt(<<L("Dieu kien"), L("Yeu cau")>>) \o HeaderEnd,
                         Strip(MatchText(t, f))))
  IN Body(FirstMatch(prereq_patterns, t, 1))

\* _extract_precise_section2 had it tried the fallback patterns whatever the
\* length of the result
_extract_precise_section2_fallback_always(t) ==
  LET Parts(objectives, audience, prereq) ==
        (IF objectives # <<>> THEN << MucTieuKhoaHoc \o objectives >> ELSE <<>>)
          \o (IF audience # <<>> THEN << DoiTuongThamGia \o audience >> ELSE <<>>)
          \o (IF prereq # <<>> THEN << DieuKienTienQuyet \o prereq >> ELSE <<>>)
      Fallback(result, f) ==
        IF f[1] # 0 THEN DoiTuongVaYeuCau \o Strip(MatchText(t, f)) ELSE result
      OrPlaceholder(result) == IF result # <<>> THEN result ELSE Placeholder2
  IN OrPlaceholder(Fallback(JoinParts(Parts(objectives_text(t), audience_text(t),
                                            prereq_text(t))),
                            FirstMatch(fallback_patterns, t, 1)))

_extract_precise_section2(t) ==
  LET Parts(objectives, audience, prereq) ==
        (IF objectives # <<>> THEN << MucTieuKhoaHoc \o objectives >> ELSE <<>>)
          \o (IF audience # <<>> THEN << DoiTuongThamGia \o audience >> ELSE <<>>)
          \o (IF prereq # <<>> THEN << DieuKienTienQuyet \o prereq >> ELSE <<>>)
      Fallback(result, f) ==
        IF (result = <<>> \/ Width(Strip(result)) < MinSlotLen) /\ f[1] # 0
        THEN DoiTuongVaYeuCau \o Strip(MatchText(t, f))
        ELSE result
      OrPlaceholder(result) == IF result # <<>> THEN result ELSE Placeholder2
  IN OrPlaceholder(Fallback(JoinParts(Parts(objectives_text(t), audience_text(t),
                                            prereq_text(t))),
                            FirstMatch(fallback_patterns, t, 1)))

content_patterns == <<
  RomanV \o Ws0 \o L("Noi dung") \o AnyGreedy,
  RomanVI \o Ws0 \o L("Noi dung") \o AnyGreedy,
  RomanVII \o Ws0 \o L("Noi dung") \o AnyGreedy,
  Lits(<<"Noi dung", " ", "khoa hoc">>) \o AnyGreedy,
  NumberDot \o Ws0 \o Alt(<<L("Introduction"), L("Tong quan"), L("Overview")>>) \o AnyGreedy,
  L("Module") \o Ws0 \o L("1") \o AnyGreedy,
  L("Chuong") \o Ws0 \o L("1") \o AnyGreedy >>

module_patterns == <<
  Lits(<<"1", ".">>) \o Ws0 \o AnyLazy \o Alt(<<Lits(<<"\n", "2", ".">>), Eos>>),
  L("Module") \o AnyLazy \o L("1") \o AnyGreedy,
  Lits(<<"Introduction", " ", "to">>) \o AnyGreedy,
  L("Hadoop") \o AnyGreedy \o L("Installation") \o AnyGreedy,
  L("HDFS") \o AnyGreedy \o L("Components") \o AnyGreedy >>

NoiDungKhoaHoc == Txt(<<"Noi dung", " ", "khoa hoc", ":", "\n">>)     \* "Nội dung khóa học:\n"
MinContentLen == 100
ContentCap == 1000

\* the slice had it no upper bound
TakeChars_uncapped(t, n) == t

\* t[:n]: the first n characters; a lexeme the cut falls in is cut
TakeChars(t, n) ==
  LET Cut(k, left) ==
        IF k = Len(t) \/ left = 0 THEN SubSeq(t, 1, k)
        ELSE SubSeq(t, 1, k)
               \o << <<IF Kind(t[k + 1]) \in {"p", " "} THEN Kind(t[k + 1]) ELSE "cut",
                       left>> >>
      Whole(k) == Cut(k, n - Width(SubSeq(t, 1, k)))
  IN Whole(Max({j \in 0..Len(t) : Width(SubSeq(t, 1, j)) <= n}))

content_text(t) ==
  LET Body(f) ==
        IF f[1] = 0 THEN <<>>
        ELSE CutPrefix(Lits(<<"Noi dung", " ", "khoa hoc">>) \o Ws0 \o L(":") \o Ws0,
               CutPrefix(Alt(<<RomanV, RomanVI, RomanVII>>) \o Ws0 \o L("Noi dung")
                           \o HeaderEnd, Strip(MatchText(t, f))))
  IN Body(FirstMatch(content_patterns, t, 1))

\* a variant of _extract_precise_section3: a content of fewer than
\* MinContentLen characters counts as missing
_extract_precise_section3_short_is_missing(t) ==
  LET Modules(content, f) ==
        IF (content = <<>> \/ Width(Strip(content)) < MinContentLen) /\ f[1] # 0
        THEN TakeChars(SubSeq(t, f[2], Len(t)), ContentCap)
        ELSE content
      OrPlaceholder(content) ==
        IF Width(Strip(content)) >= MinContentLen THEN NoiDungKhoaHoc \o content
        ELSE Placeholder3
  IN OrPlaceholder(Modules(content_text(t), FirstMatch(module_patterns, t, 1)))

_extract_precise_section3(t) ==
  LET Modules(content, f) ==
        IF (content = <<>> \/ Width(Strip(content)) < MinContentLen) /\ f[1] # 0
        THEN TakeChars(SubSeq(t, f[2], Len(t)), ContentCap)
        ELSE content
      OrPlaceholder(content) ==
        IF content # <<>> THEN NoiDungKhoaHoc \o content ELSE Placeholder3
  IN OrPlaceholder(Modules(content_text(t), FirstMatch(module_patterns, t, 1)))

(***************************************************************************)
(* CourseInfoExtractor: the five raw sections                              *)
(***************************************************************************)
SectionNames == <<"overview", "duration", "objectives", "audience", "content">>
Ii == L("I") \o Greedy("i")                 \* i+
Iii == L("I") \o Ii                         \* ii+
Iiii == L("I") \o Iii                       \* iii+
Iv == L("I") \o L("V") \o Greedy("v")       \* iv+
Vv == L("V") \o Greedy("v")                 \* v+

\* the dict CourseInfoExtractor.__init__ assigns to self.section_configs:
\* title, patterns, keywords, stop_patterns of each section
SectionConfig(name) ==
  CASE name = "overview" ->
         [title |-> Lits(<<"Gioi thieu", "/", "Tong quan", " ", "khoa hoc">>),
          patterns |-> << Ii \o L(".") \o Ws0 \o L("Tong quan"),
                          Ii \o L(".") \o Ws0 \o L("Gioi thieu"),
                          L("Tong quan") \o Ws0 \o Eol,
                          Lits(<<"Gioi thieu", " ", "ve", " ", "khoa hoc">>) >>,
          keywords |-> << L("Tong quan"), Lits(<<"Gioi thieu", " ", "khoa hoc">>),
                          Lits(<<"mo ta", " ", "khoa hoc">>) >>,
          stop_patterns |-> << Iii \o L(".") \o Ws0 \o L("Thoi luong"),
                               L("Thoi luong") \o Ws0 \o Dig1 >>]
    [] name = "duration" ->
         [title |-> Lits(<<"Thoi luong", " ", "&", " ", "Hinh thuc", " ", "dao tao">>),
          patterns |-> << Iii \o L(".") \o Ws0 \o L("Thoi luong"),
                          L("Thoi luong") \o Ws0 \o Dig1,
                          L("Thoi luong") \o DotGreedy \o L("gio") >>,
          keywords |-> << L("Thoi luong"), Lits(<<"Hinh thuc", " ", "dao tao">>),
                          Lits(<<"thoi gian", " ", "hoc">>) >>,
          stop_patterns |-> << Iiii \o L(".") \o Ws0 \o L("Muc tieu"),
                               Lits(<<"Muc tieu", " ", "khoa hoc">>) >>]
    [] name = "objectives" ->
         [title |-> Lits(<<"Muc tieu", " ", "khoa hoc">>),
          patterns |-> << Iiii \o L(".") \o Ws0 \o Lits(<<"Muc tieu", " ", "khoa hoc">>),
                          Lits(<<"Muc tieu", " ", "khoa hoc">>),
                          L("Muc tieu") \o Ws0 \o Eol >>,
          keywords |-> << Lits(<<"Muc tieu", " ", "khoa hoc">>), L("Muc tieu"),
                          Lits(<<"Sau", " ", "khoa hoc">>) >>,
          stop_patterns |-> << Iv \o L(".") \o Ws0 \o L("Doi tuong"),
                               Lits(<<"Doi tuong", " ", "tham gia">>) >>]
    [] name = "audience" ->
         [title |-> Lits(<<"Doi tuong", " ", "tham gia">>),
          patterns |-> << Iv \o L(".") \o Ws0 \o Lits(<<"Doi tuong", " ", "tham gia">>),
                          Lits(<<"Doi tuong", " ", "tham gia">>),
                          L("Doi tuong") \o Ws0 \o Eol >>,
          keywords |-> << Lits(<<"Doi tuong", " ", "tham gia">>), L("Doi tuong"),
                          L("hoc vien") >>,
          stop_patterns |-> << Vv \o L(".") \o Ws0 \o L("Noi dung"),
                               Lits(<<"Noi dung", " ", "khoa hoc">>),
                               Lits(<<"Chuong", " ", "trinh">>) >>]
    [] OTHER ->
         [title |-> Lits(<<"Noi dung", " ", "khoa hoc">>),
          patterns |-> << Vv \o L(".") \o Ws0 \o Lits(<<"Noi dung", " ", "khoa hoc">>),
                          Lits(<<"Noi dung", " ", "khoa hoc">>),
                          Lits(<<"Chuong", " ", "trinh", " ", "hoc">>),
                          L("Module") \o Ws0 \o Dig1 >>,
          keywords |-> << Lits(<<"Noi dung", " ", "khoa hoc">>),
                          Lits(<<"Chuong", " ", "trinh">>), L("Module"),
                          Lits(<<"Noi dung", " ", "dao tao">>) >>,
          stop_patterns |-> << >>]

\* CourseInfoExtractor(): the instance as its constructor leaves it
CourseInfoExtractor ==
  [text_cleaner |-> TextCleaner,
   section_configs |-> [name \in {SectionNames[i] : i \in 1..Len(SectionNames)} |->
                          SectionConfig(name)]]
\* self.section_configs[name], as the methods of the extractor read it
section_configs(name) == extractor.section_configs[name]

\* the keyword pattern had it been anchored at the start of the text only
KeywordPattern_at_the_start_of_the_text(keyword) ==
  Bos \o Ws0 \o Opt(Alt(<<L("bullet"), L("-"), L("*")>>)) \o Ws0 \o keyword

\* rf'(?:^|\n)\s*[•\-\*]?\s*{re.escape(keyword)}'
KeywordPattern(keyword) ==
  Alt(<<Bos, L("\n")>>) \o Ws0 \o Opt(Alt(<<L("bullet"), L("-"), L("*")>>)) \o Ws0 \o keyword

KeywordPatterns(kws) == [i \in 1..Len(kws) |-> KeywordPattern(kws[i])]

generic_stops == <<
  L("\n") \o Ws0 \o C("roman") \o Greedy("roman") \o L(".") \o Ws0 \o C("letter"),
  L("\n") \o Ws0 \o NumberDot \o Ws0 \o C("ascii") >>

StopOffset == 50
GenericOffset == 100

\* the search had it run on the whole text instead of text[off:]
SearchFromOff_in_the_whole_text(re, t, off, p) ==
  LET Leftmost(S) == IF S = {} THEN 0 ELSE Min(S)
  IN Leftmost({q \in p..Len(t) : M(re, t, q) # 0})

\* re.search(re, text[off:]): the position of the leftmost match that starts at
\* character offset off or later, 0 if there is none
SearchFromOff(re, t, off, p) ==
  LET Leftmost(S) == IF S = {} THEN 0 ELSE Min(S)
  IN Leftmost({q \in p..Len(t) : M(re, t, q) # 0 /\ Off(t, q) >= off})

\* the end after the stop patterns res searched from offset off: the minimum
\* of end and of the offsets of their leftmost matches (positions)
RECURSIVE TightenEnd(_, _, _, _, _)
TightenEnd(res, t, off, end, i) ==
  IF i > Len(res) THEN end
  ELSE LET Tighter(q) == IF q # 0 /\ q < end THEN q ELSE end
       IN TightenEnd(res, t, off, Tighter(SearchFromOff(res[i], t, off, 1)), i + 1)

\* text.lower(): the letters of a text are kept without their case, so only
\* the characters whose lower case is longer change
text_lower(t) == [i \in 1..Len(t) |-> IF Kind(t[i]) = "I-dot" THEN idot(t[i][2]) ELSE t[i]]

\* find_section_boundaries: [found, method, start, end]; start is a position
\* of text_lower, where the start is searched, and end a position of text
\* (Off gives their character offsets, start_pos and end_pos)
find_section_boundaries(t, name) ==
  LET End(config, start_offset) ==
        TightenEnd(generic_stops, t, start_offset + GenericOffset,
                   TightenEnd(config.stop_patterns, t, start_offset + StopOffset,
                              Len(t) + 1, 1), 1)
      Span(config, lowered, method, start) ==
        [found |-> TRUE, method |-> method, start |-> start,
         end |-> End(config, Off(lowered, start))]
      Locate(config, lowered, fp, fk) ==
        IF fp[1] = 0 /\ fk[1] = 0
        THEN [found |-> FALSE, method |-> "none", start |-> 0, end |-> 0]
        ELSE IF fp[1] # 0 THEN Span(config, lowered, "pattern", fp[2])
        ELSE Span(config, lowered, "keyword", fk[2])
      Config(config, lowered) ==
        Locate(config, lowered, FirstMatch(config.patterns, lowered, 1),
               FirstMatch(KeywordPatterns(config.keywords), lowered, 1))
  IN Only({Config(section_configs(name), lowered) : lowered \in {text_lower(t)}})

\* the pair find_section_boundaries returns: start_pos = match.start() in
\* text_lower, end_pos the offset in text of the end
start_pos(t, span) == Off(text_lower(t), span.start)
end_pos(t, span) == Off(t, span.end)

\* re.sub(r'(\d+)\s*(giờ|ngày|tuần|tháng)', r'\1 \2', content)
RECURSIVE FormatDuration(_, _)
FormatDuration(t, p) ==
  LET Unit(x, d, u) ==
        d > x /\ u <= Len(t) /\ Kind(t[u]) \in {"gio", "ngay", "tuan", "thang"}
      Matches(x, d) == Unit(x, d, RunEnd(t, "ws", d))
      Replace(d, u) == SubSeq(t, p, d - 1) \o <<Sp(1), t[u]>> \o FormatDuration(t, u + 1)
      Digits1(d) == Replace(d, RunEnd(t, "ws", d))
      Next1(S) == IF S = {} THEN SubSeq(t, p, Len(t))
                  ELSE Digits1(RunEnd(t, "digit", Min(S)))
  IN Next1({x \in p..Len(t) : Matches(x, RunEnd(t, "digit", x))})

\* re.sub(r'Module\s*(\d+)', r'\nModule \1', content), and the same for Chương
RECURSIVE BreakBefore(_, _, _)
BreakBefore(t, kind, p) ==
  LET Matches(x, w) == t[x] = Tok(kind) /\ RunEnd(t, "digit", w) > w
      Replace(x, w, d) == SubSeq(t, p, x - 1) \o <<NL, t[x], Sp(1)>> \o SubSeq(t, w, d - 1)
                            \o BreakBefore(t, kind, d)
      Number(x, w) == Replace(x, w, RunEnd(t, "digit", w))
      Next1(S) == IF S = {} THEN SubSeq(t, p, Len(t))
                  ELSE Number(Min(S), RunEnd(t, "ws", Min(S) + 1))
  IN Next1({x \in p..Len(t) : Matches(x, RunEnd(t, "ws", x + 1))})

\* re.sub(r'(?:^|\n)([^•\n])', r'\n• \1', content)
RECURSIVE BulletLines(_, _)
BulletLines(t, p) ==
  LET Replace(x, c) == SubSeq(t, p, x - 1) \o <<NL, Tok("bullet"), Sp(1), t[c]>>
                         \o BulletLines(t, c + 1)
      Next1(S) == IF S = {} THEN SubSeq(t, p, Len(t))
                  ELSE Replace(Min(S), IF t[Min(S)] = NL THEN Min(S) + 1 ELSE Min(S))
  IN Next1({x \in p..Len(t) :
              \/ x = 1 /\ Kind(t[1]) \notin {"bullet", "\n"}
              \/ t[x] = NL /\ x < Len(t) /\ Kind(t[x + 1]) \notin {"bullet", "\n"}})

post_process_section(content, section_type) ==
  IF content = <<>> THEN <<>>
  ELSE LET Specific(a) ==
             CASE section_type = "duration" -> FormatDuration(a, 1)
               [] section_type = "content" ->
                    Only({BreakBefore(b, "Chuong", 1) : b \in {BreakBefore(a, "Module", 1)}})
               [] section_type = "objectives" -> BulletLines(a, 1)
               [] OTHER -> a
           Final(a) ==
             Sub(L("\n") \o Ws0 \o L("\n") \o Ws0 \o L("\n") \o Greedy("nl"), <<NL, NL>>, a)
       IN Only({Strip(b) : b \in {Final(a) : a \in {Specific(content)}}})

extract_section_content(t, name) ==
  LET Title(content) == Sub(section_configs(name).title \o Opt(L(":")), <<>>, content)
      Numerals(content) ==
        Sub(Bol \o C("roman") \o Greedy("roman") \o L(".") \o Ws0, <<>>, content)
      Numbers(content) == Sub(Bol \o NumberDot \o Ws0, <<>>, content)
      Content(b) ==
        IF ~b.found THEN <<>>
        ELSE Only({Strip(f) :
                     f \in {post_process_section(e, name) :
                     e \in {Numbers(d) :
                     d \in {Numerals(c) :
                     c \in {Title(a) :
                     a \in {clean_text(SubSeq(t, b.start, b.end - 1))}}}}}})
  IN Only({Content(b) : b \in {find_section_boundaries(t, name)}})

MinRawLen == 30
MinTextLen == 100

\* the raw sections kept: those of more than MinRawLen characters
raw_sections_of(cleaned) ==
  LET Kept(content) ==
        [i \in {j \in 1..Len(SectionNames) :
                  content[j] # <<>> /\ Width(Strip(content[j])) > MinRawLen} |-> content[i]]
  IN Kept([i \in 1..Len(SectionNames) |->
             extract_section_content(cleaned, SectionNames[i])])

\* _create_fixed_sections had it taken the course content from the raw
\* section "noi_dung" whenever Step 1 found one
_create_fixed_sections_from_raw_sections(raw_sections, full_text) ==
  LET Sections(cleaned_full_text) ==
        [section1_intro_duration |-> _extract_precise_section1(cleaned_full_text),
         section2_objectives_audience |-> _extract_precise_section2(cleaned_full_text),
         section3_content |-> IF Len(SectionNames) \in DOMAIN raw_sections
                              THEN raw_sections[Len(SectionNames)]
                              ELSE _extract_precise_section3(cleaned_full_text)]
  IN Only({Sections(c) : c \in {clean_text(full_text)}})

_create_fixed_sections(raw_sections, full_text) ==
  LET Sections(cleaned_full_text) ==
        [section1_intro_duration |-> _extract_precise_section1(cleaned_full_text),
         section2_objectives_audience |-> _extract_precise_section2(cleaned_full_text),
         section3_content |-> _extract_precise_section3(cleaned_full_text)]
  IN Only({Sections(c) : c \in {clean_text(full_text)}})

\* a variant of extract_course_info: the threshold is applied to len(text)
\* instead of len(text.strip())
extract_course_info_unstripped(t) ==
  IF t = <<>> \/ Width(t) < MinTextLen THEN <<>>
  ELSE LET Sections(cleaned_text) ==
             _create_fixed_sections(raw_sections_of(cleaned_text), cleaned_text)
       IN Only({Sections(c) : c \in {clean_text(t)}})

\* extract_course_info: the dict of the three fixed sections, or the empty dict
extract_course_info(t) ==
  IF t = <<>> \/ Width(Strip(t)) < MinTextLen THEN <<>>
  ELSE LET Sections(cleaned_text) ==
             _create_fixed_sections(raw_sections_of(cleaned_text), cleaned_text)
       IN Only({Sections(c) : c \in {clean_text(t)}})

(***************************************************************************)
(* PDFLoader (pdf_loader.py)                                               *)
(***************************************************************************)
\* "\n".join([page.page_content for page in pages])
full_text(pages) == JoinLines(pages)

\* os.path.basename(file_path) and the name without its extension
source_name == "course.pdf"
course_name == "course"

\* a variant of loader_section_configs: the content slot comes first
loader_section_configs_reordered == <<
  [key |-> "section3_content", title |-> "Noi dung Khoa hoc",
   type |-> "course_content"],
  [key |-> "section1_intro_duration", title |-> "Gioi thieu va Thoi luong",
   type |-> "intro_duration"],
  [key |-> "section2_objectives_audience", title |-> "Muc tieu va Doi tuong",
   type |-> "objectives_audience"] >>

\* the section_configs of load_pdf_file, in the order of the dict:
\* "Giới thiệu và Thời lượng", "Mục tiêu và Đối tượng", "Nội dung Khóa học"
loader_section_configs == <<
  [key |-> "section1_intro_duration", title |-> "Gioi thieu va Thoi luong",
   type |-> "intro_duration"],
  [key |-> "section2_objectives_audience", title |-> "Muc tieu va Doi tuong",
   type |-> "objectives_audience"],
  [key |-> "section3_content", title |-> "Noi dung Khoa hoc",
   type |-> "course_content"] >>

Document(content, section, title, type) ==
  [page_content |-> content, source |-> source_name, course_name |-> course_name,
   section |-> section, section_title |-> title, section_type |-> type]

MinPageLen == 50

\* fallback_chunking: the pages whose cleaned text has more than MinPageLen
\* characters, each cleaned; a cleaned page of at most chunk_size (800)
\* characters, as every page here is, is one chunk ("Nội dung thô")
fallback_chunking(pages) ==
  LET Chunk(cleaned_content) ==
        IF Width(cleaned_content) > MinPageLen
        THEN << Document(cleaned_content, "raw_content", "Noi dung tho", "chunked") >>
        ELSE <<>>
  IN Concat([i \in 1..Len(pages) |-> Only({Chunk(c) : c \in {clean_text(pages[i])}})])

\* load_pdf_file once PyPDFLoader has loaded the pages
load_pdf_file(pages) ==
  LET Record(info, config) ==
        Document(info[config.key], config.key, config.title, config.type)
      Documents(info) ==
        IF DOMAIN info # {} /\ Cardinality(DOMAIN info) >= 2
        THEN [i \in 1..Len(loader_section_configs) |->
                Record(info, loader_section_configs[i])]
        ELSE fallback_chunking(pages)
  IN Only({Documents(info) : info \in {extract_course_info(full_text(pages))}})

(***************************************************************************)
(* TopicVectorDB (topic_vectordb.py): the files of a topic folder          *)
(***************************************************************************)
\* t[n:]: what follows the first n characters; a lexeme the cut falls in is cut.
\* The piece of a cut lexeme keeps its number of characters only: where the
\* cut falls on the blank inside a lexeme of two words, strip() of the source
\* removes that blank and the piece of the model keeps it
DropChars(t, n) ==
  LET Rest(k, left) ==
        IF k = Len(t) \/ left = 0 THEN SubSeq(t, k + 1, Len(t))
        ELSE << <<IF Kind(t[k + 1]) \in {"p", " "} THEN Kind(t[k + 1]) ELSE "cut",
                  t[k + 1][2] - left>> >> \o SubSeq(t, k + 2, Len(t))
      Whole(k) == Rest(k, n - Width(SubSeq(t, 1, k)))
  IN Whole(Max({j \in 0..Len(t) : Width(SubSeq(t, 1, j)) <= n}))

\* the split had it handed on the thirds as they are cut
_create_fallback_sections_unstripped(raw_text) ==
  LET Section(content, section, title) ==
        IF content = <<>> THEN <<>>
        ELSE << [page_content |-> content, course_name |-> course_name,
                 section |-> section, section_title |-> title] >>
      Sections(part_size) ==
        Section(TakeChars(raw_text, part_size), "section1_intro_duration",
                "Gioi thieu va Thoi luong (Fallback)")
          \o Section(TakeChars(DropChars(raw_text, part_size), part_size),
                     "section2_objectives_audience", "Muc tieu va Doi tuong (Fallback)")
          \o Section(DropChars(raw_text, 2 * part_size),
                     "section3_content_modules", "Noi dung va Modules (Fallback)")
  IN Sections(Width(raw_text) \div 3)

\* _create_fallback_sections: the three thirds of the raw text, each stripped,
\* the empty ones left out.  The metadata of a record is course_name, section
\* and section_title ("... (Fallback)")
_create_fallback_sections(raw_text) ==
  LET Section(content, section, title) ==
        IF content = <<>> THEN <<>>
        ELSE << [page_content |-> content, course_name |-> course_name,
                 section |-> section, section_title |-> title] >>
      Sections(part_size) ==
        Section(Strip(TakeChars(raw_text, part_size)), "section1_intro_duration",
                "Gioi thieu va Thoi luong (Fallback)")
          \o Section(Strip(TakeChars(DropChars(raw_text, part_size), part_size)),
                     "section2_objectives_audience", "Muc tieu va Doi tuong (Fallback)")
          \o Section(Strip(DropChars(raw_text, 2 * part_size)),
                     "section3_content_modules", "Noi dung va Modules (Fallback)")
  IN Sections(Width(raw_text) \div 3)

MinMeaningfulLen == 50
ShortSectionLen == 200
MinRawTextLen == 500

\* the quality loop: a document of more than MinMeaningfulLen characters is a
\* short section when it starts with "Thông tin" and has fewer than
\* ShortSectionLen characters, and meaningful content otherwise
IsShortSection(content) ==
  /\ Width(content) > MinMeaningfulLen
  /\ content[1] = Tok("Thong tin") /\ Width(content) < ShortSectionLen
IsMeaningful(content) ==
  /\ Width(content) > MinMeaningfulLen
  /\ ~(content[1] = Tok("Thong tin") /\ Width(content) < ShortSectionLen)

\* a variant of should_process: only meaningful content makes a file accepted
should_process_meaningful_only(documents) ==
  \E i \in 1..Len(documents) : IsMeaningful(Strip(documents[i].page_content))

\* a variant of should_process: three documents are accepted only when all
\* three are short sections
should_process_three_short(documents) ==
  \/ \E i \in 1..Len(documents) : IsMeaningful(Strip(documents[i].page_content))
  \/ /\ Len(documents) = 3
     /\ Cardinality({i \in 1..Len(documents) :
                       IsShortSection(Strip(documents[i].page_content))}) = 3

\* should_process = has_meaningful_content or
\*                  (len(documents) == 3 and short_sections <= 3)
should_process(documents) ==
  \/ \E i \in 1..Len(documents) : IsMeaningful(Strip(documents[i].page_content))
  \/ /\ Len(documents) = 3
     /\ Cardinality({i \in 1..Len(documents) :
                       IsShortSection(Strip(documents[i].page_content))}) <= 3

\* a variant of has_raw_content: any page-sized text is enough
has_raw_content_of_a_page(raw_text) == Width(Strip(raw_text)) >= MinPageLen

\* len(full_text.strip()) >= 500
has_raw_content(raw_text) == Width(Strip(raw_text)) >= MinRawTextLen

\* a variant of except_processing: the error is raised again
except_processing_reraise(result) == [result EXCEPT !.outcome = "raised"]

\* except Exception as e: the error of a file is printed and the loop goes on
except_processing(result) == [result EXCEPT !.outcome = "error"]

\* what can go wrong with a file: PyPDFLoader raising inside load_pdf_file
\* ("load"), PyPDFLoader raising when the file is read again ("reload")
Faults == {"none", "load", "reload"}

\* one turn of the loop of _process_topic_folder, load_pdf_file having returned
\* documents: the outcome for the file, the tier the records come from and the
\* records handed to _upload_document_section, which raises nothing
_process_topic_file(file_pages, documents, fault) ==
  LET Result(outcome, tier, handed) ==
        [outcome |-> outcome, tier |-> tier, loaded |-> documents, handed |-> handed]
      Upload(tier, handed) ==
        Result(IF handed = <<>> THEN "nothing uploaded" ELSE "uploaded", tier, handed)
      ReExtract(text_again) ==
        IF has_raw_content(text_again)
        THEN Upload("fallback", _create_fallback_sections(text_again))
        ELSE Result("skipped", "none", <<>>)
  IN IF documents = <<>> THEN Result("empty", "none", <<>>)
     ELSE IF should_process(documents) THEN Upload("loaded", documents)
     ELSE IF fault = "reload" THEN except_processing(Result("", "none", <<>>))
     ELSE ReExtract(full_text(file_pages))

(***************************************************************************)
(* The documents processed                                                 *)
(***************************************************************************)
\* the parts of a brochure with the five headed sections, in the order
\* I. Giới thiệu, II. Thời lượng, III. Mục tiêu khóa học,
\* IV. Đối tượng tham gia, V. Nội dung khóa học
IntroBody ==       \* "khóa học ABC giúp học viên nắm vững Cloud."
  Txt(<<"khoa hoc", " ", "ABC", " ", "giup", " ", "hoc vien", " ", "nam", " ",
        "vung", " ", "Cloud", ".">>)
DurationBody == Txt(<<"4", "0", " ", "gio", ".">>)                 \* "40 giờ."
ObjectivesBody ==  \* "Sau khóa học học viên có thể triển khai Cloud."
  Txt(<<"Sau", " ", "khoa hoc", " ", "hoc vien", " ", "co the", " ", "trien khai",
        " ", "Cloud", ".">>)
AudienceBody == Txt(<<"Developer", ",", " ", "System", " ", "Admin", ".">>)
ModulesBody ==     \* "Module 1: Overview. Module 2: Networking."
  Txt(<<"Module", " ", "1", ":", " ", "Overview", ".", " ",
        "Module", " ", "2", ":", " ", "Networking", ".">>)
\* "Học trực tuyến qua Zoom với giảng viên."
FormatBody ==
  Txt(<<"hoc", " ", "truc tuyen", " ">>) \o <<P(3)>> \o Txt(<<" ", "Zoom", " ">>)
    \o <<P(3)>> \o Txt(<<" ", "giang vien", ".">>)
Break == <<NL, NL>>

Scenario ==
  Txt(<<"I", ".", " ", "Gioi thieu", ":", " ">>) \o IntroBody \o Break
    \o Txt(<<"I", "I", ".", " ", "Thoi luong", ":", " ">>) \o DurationBody \o Break
    \o Txt(<<"I", "I", "I", ".", " ", "Muc tieu", " ", "khoa hoc", ":", " ">>)
    \o ObjectivesBody \o Break
    \o Txt(<<"I", "V", ".", " ", "Doi tuong", " ", "tham gia", ":", " ">>)
    \o AudienceBody \o Break
    \o Txt(<<"V", ".", " ", "Noi dung", " ", "khoa hoc", ":", " ">>) \o ModulesBody

\* a brochure without numbered headings whose duration line is followed by
\* the line "Hình thức đào tạo: ..."
Unheaded ==
  IntroBody \o <<NL>>
    \o Txt(<<"Thoi luong", ":", " ", "3", " ", "ngay", ".", "\n">>)
    \o Txt(<<"Hinh thuc", " ", "dao tao", ":", " ">>) \o FormatBody \o <<NL>>
    \o Txt(<<"Muc tieu", " ", "khoa hoc", ":", " ">>) \o <<P(30)>> \o Txt(<<".">>)

\* a brochure with numbered headings in which "III. Hình thức đào tạo" starts
\* 40 characters after "II. Thời lượng" does
WithFormat ==
  Txt(<<"I", ".", " ", "Gioi thieu", ":", " ">>) \o IntroBody \o <<NL>>
    \o Txt(<<"I", "I", ".", " ", "Thoi luong", ":", " ", "4", "0", " ", "gio", ",", " ">>)
    \o <<P(14)>> \o Txt(<<".", "\n">>)
    \o Txt(<<"I", "I", "I", ".", " ", "Hinh thuc", " ", "dao tao", ":", " ">>)
    \o FormatBody \o <<NL>>
    \o Txt(<<"I", "V", ".", " ", "Muc tieu", " ", "khoa hoc", ":", " ">>)
    \o ObjectivesBody \o <<NL>>
    \o Txt(<<"V", ".", " ", "Doi tuong", " ", "tham gia", ":", " ">>)
    \o AudienceBody \o <<NL>>
    \o Txt(<<"V", "I", ".", " ", "Noi dung", " ", "khoa hoc", ":", " ">>) \o ModulesBody

\* "Module 3 — Tầng 5, Quận 1"
AddressLine ==
  Txt(<<"Module", " ", "3", " ", "--", " ", "Tang", " ", "5", ",", " ", "Quan", " ", "1">>)
\* "d/ữ liệu của khóa học"
Garbled == Txt(<<"d", "/", "u lieu", " ">>) \o <<P(3)>> \o Txt(<<" ", "khoa hoc">>)
\* a sentence of plain prose
Prose == <<P(40), Tok(".")>>

\* 480 letters of prose, then "Nội dung khóa học: " and a word of 10 letters
Sparse ==
  <<P(480), Tok("."), NL>> \o Txt(<<"Noi dung", " ", "khoa hoc", ":", " ">>)
    \o <<P(10), Tok(".")>>
\* the heading "I. Giới thiệu:" with nothing under it, then "II." and prose
HeaderOnly ==
  Txt(<<"I", ".", " ", "Gioi thieu", ":", " ", "I", "I", ".", " ">>) \o <<P(100), Tok(".")>>
\* "Mục tiêu khóa học: ..." (110 letters), the line "1. ..." in lower case and
\* the bulleted line "• học viên ..."
Outline ==
  Txt(<<"Muc tieu", " ", "khoa hoc", ":", " ">>) \o <<P(110), Tok("."), NL>>
    \o Txt(<<"1", ".", " ">>) \o <<P(30), Tok("."), NL>>
    \o Txt(<<"bullet", " ", "hoc vien", " ">>) \o <<P(20), Tok(".")>>
\* "Đối tượng tham gia: Developer, System Admin. ..." (40 letters), then
\* "Module 1 ..." (60 letters) before "V. Nội dung khóa học: ..." (70 letters)
LateContent ==
  Txt(<<"Doi tuong", " ", "tham gia", ":", " ">>) \o AudienceBody
    \o <<Sp(1), P(40), Tok("."), NL>>
    \o Txt(<<"Module", " ", "1", " ">>) \o <<P(60), Tok("."), NL>>
    \o Txt(<<"V", ".", " ", "Noi dung", " ", "khoa hoc", ":", " ">>) \o <<P(70), Tok(".")>>
\* "Module 21 ..." followed by 1100 letters
LongModule == Txt(<<"Module", " ", "2", "1", " ">>) \o <<P(1100), Tok(".")>>

Bodies == << <<>>, Prose, Scenario, Unheaded, WithFormat, AddressLine, Garbled,
             Sparse, HeaderOnly, Outline, LateContent, LongModule >>

\* the bounds of the documents: a document is a first page, one of Bodies
\* after 0..MaxPad runs of PadLen blanks, and 0..MaxFill further pages, each a
\* sentence of FillLen letters
MaxPad == 1
MaxFill == 2
PadLen == 120
FillLen == 55
FillPage == <<P(FillLen), Tok(".")>>
Pages(body, pad, fill) ==
  << (IF pad = 0 THEN <<>> ELSE <<Sp(pad * PadLen)>>) \o Bodies[body] >>
    \o [i \in 1..fill |-> FillPage]

\* a file of one page, "Thông tin ..." (50 letters), and the topic folder: that
\* file and the document
NoticeFile == << <<Tok("Thong tin"), Sp(1), P(50), Tok(".")>> >>
TopicFolder(document_pages) == <<NoticeFile, document_pages>>

(***************************************************************************)
(* The state machine: one document, and the operations applied to it       *)
(***************************************************************************)
VARIABLES
  pages,        \* the pages PyPDFLoader yields for the file
  text,         \* the text of the document
  pc,           \* the operations applied so far
  cleaned,      \* clean_text(text)
  recleaned,    \* clean_text(cleaned)
  spans,        \* find_section_boundaries(cleaned, name) for the five names
  text_spans,   \* find_section_boundaries(text, name) for the five names
  course_info,  \* extract_course_info(text)
  documents,    \* the result of load_pdf_file
  processed,    \* _process_topic_folder: what became of each file handled so far
  routing_chain,   \* routing_chain.py: the RoutingChain instance and log_simple_chat
  session_memory,  \* main.py: session_memory, the stored history of each session
  now,             \* main.py: the clock datetime.now() reads, in ticks
  arrived,         \* history variable: the messages each session received since
                   \* it was created or last cleared, in arrival order
  returned         \* what the last call of RoutingChain.chat returned
service == <<routing_chain, session_memory, now, arrived, returned>>
pipeline == <<extractor, pages, text, pc, cleaned, recleaned, spans, text_spans,
              course_info, documents, processed>>
vars == <<extractor, pages, text, pc, cleaned, recleaned, spans, text_spans, course_info,
          documents, processed, routing_chain, session_memory, now, arrived, returned>>

\* no chat service is running while documents are processed
NoService ==
  /\ routing_chain = <<>>
  /\ session_memory = <<>>
  /\ now = 0
  /\ arrived = <<>>
  /\ returned = <<>>

Init ==
  /\ \E body \in 1..Len(Bodies), pad \in 0..MaxPad, fill \in 0..MaxFill :
       pages = Pages(body, pad, fill)
  /\ extractor = CourseInfoExtractor
  /\ text = full_text(pages)
  /\ pc = "ready"
  /\ cleaned = <<>>
  /\ recleaned = <<>>
  /\ spans = <<>>
  /\ text_spans = <<>>
  /\ course_info = <<>>
  /\ documents = <<>>
  /\ processed = <<>>
  /\ NoService

\* clean_text had it consumed the pattern it applies first: a call that
\* writes to the table of the cleaner
CleanText_consuming_its_patterns ==
  /\ pc = "ready"
  /\ cleaned' = clean_text(text)
  /\ pc' = "cleaned"
  /\ extractor' = [extractor EXCEPT !.text_cleaner.company_noise_patterns = Tail(@)]
  /\ UNCHANGED <<service, pages, text, recleaned, spans, text_spans, course_info, documents,
                 processed>>

\* clean_text had it left out its last step, remove_incomplete_lines
CleanText_keeping_every_line ==
  /\ pc = "ready"
  /\ cleaned' = IF text = <<>> THEN <<>>
                ELSE Strip(standardize_formatting(normalize_whitespace(FilterCharacters(
                       remove_company_noise(fix_vietnamese_encoding(text))))))
  /\ pc' = "cleaned"
  /\ UNCHANGED <<service, extractor, pages, text, recleaned, spans, text_spans, course_info,
                 documents, processed>>

\* TextCleaner.clean_text(text)
CleanText ==
  /\ pc = "ready"
  /\ cleaned' = clean_text(text)
  /\ pc' = "cleaned"
  /\ UNCHANGED <<service, extractor, pages, text, recleaned, spans, text_spans, course_info,
                 documents, processed>>

\* TextCleaner.clean_text applied to its own output
CleanAgain ==
  /\ pc = "cleaned"
  /\ recleaned' = clean_text(cleaned)
  /\ pc' = "recleaned"
  /\ UNCHANGED <<service, extractor, pages, text, cleaned, spans, text_spans, course_info,
                 documents, processed>>

\* CourseInfoExtractor.find_section_boundaries(t, name), for each name, with
\* the cleaned text and with the text as it is
FindSectionBoundaries ==
  /\ pc = "recleaned"
  /\ spans' = [i \in 1..Len(SectionNames) |->
                 find_section_boundaries(cleaned, SectionNames[i])]
  /\ text_spans' = [i \in 1..Len(SectionNames) |->
                      find_section_boundaries(text, SectionNames[i])]
  /\ pc' = "located"
  /\ UNCHANGED <<service, extractor, pages, text, cleaned, recleaned, course_info, documents,
                 processed>>

\* CourseInfoExtractor.extract_course_info(text)
ExtractCourseInfo ==
  /\ pc = "located"
  /\ course_info' = extract_course_info(text)
  /\ pc' = "extracted"
  /\ UNCHANGED <<service, extractor, pages, text, cleaned, recleaned, spans, text_spans,
                 documents, processed>>

\* PDFLoader.load_pdf_file(file_path), the file being read without error
LoadPdfFile ==
  /\ pc = "extracted"
  /\ documents' = load_pdf_file(pages)
  /\ pc' = "loaded"
  /\ UNCHANGED <<service, extractor, pages, text, cleaned, recleaned, spans, text_spans,
                 course_info, processed>>

\* PDFLoader.load_pdf_file(file_path), PyPDFLoader raising: the except branch
LoadPdfFileError ==
  /\ pc = "extracted"
  /\ documents' = <<>>
  /\ pc' = "failed"
  /\ UNCHANGED <<service, extractor, pages, text, cleaned, recleaned, spans, text_spans,
                 course_info, processed>>

\* TopicVectorDB._process_topic_folder: one turn of its loop, for the next
\* file of the folder; an exception that leaves the loop ends it.  The loop
\* runs on the same extractor, at any point between the operations on the
\* document; it comes to the file of the document once that is loaded
ProcessTopicFile ==
  /\ processed = <<>> \/ pc = "loaded"
  /\ Len(processed) < Len(TopicFolder(pages))
  /\ \A i \in 1..Len(processed) : processed[i].outcome # "raised"
  /\ \E loaded \in {load_pdf_file(TopicFolder(pages)[Len(processed) + 1])} :
       \E fault \in Faults :
         processed' =
           Append(processed,
                  _process_topic_file(TopicFolder(pages)[Len(processed) + 1],
                                      IF fault = "load" THEN <<>> ELSE loaded, fault))
  /\ UNCHANGED <<service, extractor, pages, text, pc, cleaned, recleaned, spans, text_spans,
                 course_info,
                 documents>>

Next ==
  \/ CleanText
  \/ CleanAgain
  \/ FindSectionBoundaries
  \/ ExtractCourseInfo
  \/ LoadPdfFile
  \/ LoadPdfFileError
  \/ ProcessTopicFile

Spec == Init /\ [][Next]_vars

(***************************************************************************)
(* Single methods called on a text of their own                            *)
(***************************************************************************)
\* texts for the split into thirds: blanks, a run of letters, a gap, a run
\* of letters and a full stop, a line end
SplitTexts ==
  {lead \o <<P(a)>> \o gap \o <<P(b), Tok(".")>> \o trail :
     lead \in {<<>>, <<Sp(2)>>}, a \in {200, 260},
     gap \in {<<>>, <<Sp(1)>>, <<NL>>, <<Sp(300)>>, <<Tok("."), NL, NL>>},
     b \in {250, 300, 301}, trail \in {<<>>, <<NL>>}}
\* texts for the cleaner: one or two lines, each a word of 5 letters, "bbb.",
\* 25 letters and "...", 12 letters and "...", a sentence of 30 letters, 22
\* letters without a full stop, "Module 3 — Tầng 5, Quận 1", or nothing
CleanerLines ==
  {<<P(5)>>, <<P(3), Tok(".")>>, <<P(25), Tok("."), Tok("."), Tok(".")>>,
   <<P(12), Tok("."), Tok("."), Tok(".")>>, <<P(30), Tok(".")>>, <<P(22)>>,
   AddressLine, <<>>}
CleanerTexts ==
  {JoinLines(ls) : ls \in [1..1 -> CleanerLines] \cup [1..2 -> CleanerLines]}
CallTexts == SplitTexts \cup CleanerTexts

CallInit ==
  /\ text \in CallTexts
  /\ extractor = CourseInfoExtractor
  /\ pages = <<>>
  /\ pc = "ready"
  /\ cleaned = <<>>
  /\ recleaned = <<>>
  /\ spans = <<>>
  /\ text_spans = <<>>
  /\ course_info = <<>>
  /\ documents = <<>>
  /\ processed = <<>>
  /\ NoService

\* documents = self._create_fallback_sections(full_text, file_name), under
\* its condition len(full_text.strip()) >= 500
CreateFallbackSections ==
  /\ pc = "ready"
  /\ has_raw_content(text)
  /\ documents' = _create_fallback_sections(text)
  /\ pc' = "_create_fallback_sections"
  /\ UNCHANGED <<service, extractor, pages, text, cleaned, recleaned, spans, text_spans,
                 course_info, processed>>

\* TextCleaner.normalize_whitespace(text)
NormalizeWhitespace ==
  /\ pc = "ready"
  /\ cleaned' = normalize_whitespace(text)
  /\ pc' = "normalize_whitespace"
  /\ UNCHANGED <<service, extractor, pages, text, recleaned, spans, text_spans, course_info,
                 documents, processed>>

\* TextCleaner.remove_incomplete_lines(text)
RemoveIncompleteLines ==
  /\ pc = "ready"
  /\ cleaned' = remove_incomplete_lines(text)
  /\ pc' = "remove_incomplete_lines"
  /\ UNCHANGED <<service, extractor, pages, text, recleaned, spans, text_spans, course_info,
                 documents, processed>>

\* TextCleaner.remove_company_noise(text)
RemoveCompanyNoise ==
  /\ pc = "ready"
  /\ cleaned' = remove_company_noise(text)
  /\ pc' = "remove_company_noise"
  /\ UNCHANGED <<service, extractor, pages, text, recleaned, spans, text_spans, course_info,
                 documents, processed>>

CallNext ==
  \/ CreateFallbackSections
  \/ NormalizeWhitespace
  \/ RemoveIncompleteLines
  \/ RemoveCompanyNoise
  \/ CleanText

CallSpec == CallInit /\ [][CallNext]_vars

(***************************************************************************)
(* find_section_boundaries called on a text of its own                     *)
(***************************************************************************)
\* a heading of one of the sections, a body, and possibly the heading that
\* stops the section, after nothing, a line of plain letters or a line of
\* dotted capital I
LocateHeadings ==
  {Txt(<<"Muc tieu", " ", "khoa hoc">>), Txt(<<"Thoi luong", ":", " ", "4", "0", " ", "gio">>),
   Txt(<<"I", "I", "I", ".", " ", "Muc tieu", " ", "khoa hoc">>),
   Txt(<<"Noi dung", " ", "khoa hoc">>)}
LocateStops ==
  {<<>>, <<NL>> \o Txt(<<"Doi tuong", " ", "tham gia">>) \o <<Sp(1), P(12)>>,
   <<NL>> \o Txt(<<"I", "V", ".", " ">>) \o <<P(9)>>}
LocateTexts ==
  {lead \o heading \o <<NL, P(body), Tok(".")>> \o stop :
     lead \in {<<>>, <<P(20), NL>>, <<Idot(60), NL>>, <<Idot(3), Sp(1), P(6), NL>>},
     heading \in LocateHeadings, body \in {30, 60, 130}, stop \in LocateStops}

LocateInit ==
  /\ text \in LocateTexts
  /\ extractor = CourseInfoExtractor
  /\ pages = <<>>
  /\ pc = "ready"
  /\ cleaned = <<>>
  /\ recleaned = <<>>
  /\ spans = <<>>
  /\ text_spans = <<>>
  /\ course_info = <<>>
  /\ documents = <<>>
  /\ processed = <<>>
  /\ NoService

\* CourseInfoExtractor.find_section_boundaries(text, section_name)
FindBoundaries ==
  /\ pc = "ready"
  /\ \E i \in 1..Len(SectionNames) :
       text_spans' = [j \in {i} |-> find_section_boundaries(text, SectionNames[i])]
  /\ pc' = "find_section_boundaries"
  /\ UNCHANGED <<service, extractor, pages, text, cleaned, recleaned, spans, course_info,
                 documents, processed>>

LocateNext == FindBoundaries

LocateSpec == LocateInit /\ [][LocateNext]_vars

(***************************************************************************)
(* routing_chain.py: the intent classifier, the handlers, RoutingChain.chat *)
(***************************************************************************)
None == "None"
\* an exception leaving a call
Raised == [exception |-> "Exception"]

INTENTS_CONFIG ==
  {"course_inquiry", "course_consultation", "schedule_inquiry", "promotion_inquiry",
   "company_info", "training_for_company", "tech_consultation", "policy_inquiry",
   "general_inquiry"}

\* the string the language model answers with: a word (given in lower case),
\* written in lower case or not, between leading and trailing whitespace
Label(pre, word, upper, post) == [pre |-> pre, word |-> word, upper |-> upper, post |-> post]
Plain(word) == Label("", word, FALSE, "")
strip(label) == [label EXCEPT !.pre = "", !.post = ""]
lower(label) == [label EXCEPT !.upper = FALSE]

\* IntentClassifier.classify; llm is what chain.invoke does, a label or an
\* exception
classify(llm) ==
  IF llm = Raised THEN "general_inquiry"
  ELSE IF \E intent \in INTENTS_CONFIG : lower(strip(llm)) = Plain(intent)
       THEN llm.word
       ELSE "general_inquiry"

\* the intents IntentHandler has a handle_<intent> method for
IntentHandler ==
  {"course_inquiry", "course_consultation", "schedule_inquiry", "promotion_inquiry",
   "company_info", "training_for_company", "tech_consultation", "policy_inquiry",
   "general_inquiry"}

\* what a handler returns: its own intent and its answer, the one it
\* composed or its reply template
handle(intent, outcome) ==
  [intent |-> intent, answer |-> <<intent, outcome>>, next_step |-> <<intent, "next_step">>]

\* getattr(self.handler, f"handle_{intent}", None), else handle_general_inquiry
handler_method(intent, outcome) ==
  IF intent \in IntentHandler THEN handle(intent, outcome)
  ELSE handle("general_inquiry", outcome)

unavailable_response(user_input, session_id) ==
  [intent |-> "error", answer |-> <<"error", "unavailable">>, next_step |-> "retry",
   session_id |-> session_id, user_input |-> user_input, routing_used |-> FALSE,
   error |-> "Components not initialized"]

error_response(user_input, session_id) ==
  [intent |-> "error", answer |-> <<"error", "apology">>, next_step |-> "retry",
   session_id |-> session_id, user_input |-> user_input, routing_used |-> TRUE,
   error |-> "Exception"]

\* response.update({session_id, user_input, routing_used})
update(response, user_input, session_id) ==
  [intent |-> response.intent, answer |-> response.answer, next_step |-> response.next_step,
   session_id |-> session_id, user_input |-> user_input, routing_used |-> TRUE]

\* the rows log_simple_chat writes, inside the try around it
log_simple_chat(chain, enable_logging, env, row) ==
  IF enable_logging /\ chain.log_simple_chat # None /\ env.log # "raises"
  THEN <<row>> ELSE <<>>

\* RoutingChain.chat without its outer try: an exception of the handler
\* leaves the call
RoutingChain_chat_unguarded(chain, user_input, session_id, enable_logging, env) ==
  IF chain.classifier = None \/ chain.handler = None
  THEN [response |-> unavailable_response(user_input, session_id), logged |-> <<>>]
  ELSE IF env.handler = "raises"
  THEN [response |-> Raised, logged |-> <<>>]
  ELSE [response |-> update(handler_method(classify(env.llm), env.handler),
                            user_input, session_id),
        logged |-> log_simple_chat(chain, enable_logging, env,
                     [question |-> user_input,
                      answer |-> handler_method(classify(env.llm), env.handler).answer,
                      intent |-> classify(env.llm)])]

\* RoutingChain.chat; env is what the language model, the handler and the
\* log do during the call
RoutingChain_chat(chain, user_input, session_id, enable_logging, env) ==
  IF chain.classifier = None \/ chain.handler = None
  THEN [response |-> unavailable_response(user_input, session_id), logged |-> <<>>]
  ELSE IF env.handler = "raises"
  THEN [response |-> error_response(user_input, session_id),
        logged |-> log_simple_chat(chain, enable_logging, env,
                     [question |-> user_input,
                      answer |-> error_response(user_input, session_id).answer,
                      error |-> "Exception"])]
  ELSE [response |-> update(handler_method(classify(env.llm), env.handler),
                            user_input, session_id),
        logged |-> log_simple_chat(chain, enable_logging, env,
                     [question |-> user_input,
                      answer |-> handler_method(classify(env.llm), env.handler).answer,
                      intent |-> classify(env.llm)])]

\* RoutingChain.__init__ after the imports of the module: all of them made,
\* or one missing and every imported name None
Imported ==
  [classifier |-> "IntentClassifier", handler |-> "IntentHandler",
   log_simple_chat |-> "log_simple_chat"]
NotImported == [classifier |-> None, handler |-> None, log_simple_chat |-> None]

Labels ==
  {Plain("course_inquiry"), Label(" ", "schedule_inquiry", TRUE, "\n"),
   Label("", "tech_consultation", TRUE, ""), Plain("general_inquiry"),
   Plain("weather"), Plain("course_inquiry.")}
Envs ==
  [llm : Labels \cup {Raised}, handler : {"answer", "reply_template", "raises"},
   log : {"ok", "raises"}]
UserInputs == {"hoc phi AWS?", "thoi tiet?"}
SessionNames == <<"session_0", "session_1", "session_2">>

\* no document is processed while the chat service runs
NoPipeline ==
  /\ extractor = <<>>
  /\ pages = <<>>
  /\ text = <<>>
  /\ pc = "serving"
  /\ cleaned = <<>>
  /\ recleaned = <<>>
  /\ spans = <<>>
  /\ text_spans = <<>>
  /\ course_info = <<>>
  /\ documents = <<>>
  /\ processed = <<>>

RoutingInit ==
  /\ NoPipeline
  /\ routing_chain \in {Imported, NotImported}
  /\ session_memory = <<>>
  /\ now = 0
  /\ arrived = <<>>
  /\ returned = <<>>

\* one call of RoutingChain.chat
Chat ==
  /\ \E user_input \in UserInputs, session_id \in {"a", SessionNames[1]},
        enable_logging \in BOOLEAN, env \in Envs :
       returned' = [user_input |-> user_input, session_id |-> session_id,
                    enable_logging |-> enable_logging, env |-> env,
                    out |-> RoutingChain_chat(routing_chain, user_input, session_id,
                                              enable_logging, env)]
  /\ UNCHANGED <<pipeline, routing_chain, session_memory, now, arrived>>

RoutingNext == Chat

RoutingSpec == RoutingInit /\ [][RoutingNext]_vars

(***************************************************************************)
(* main.py: the chat, get-conversation and clear-conversation requests     *)
(***************************************************************************)
HistoryLimit == 20
\* requests the clock is followed for, and ticks of it in one second
MaxRequests == 11
TicksPerSecond == 6

\* f"session_{datetime.now().strftime('%Y%m%d_%H%M%S')}"
GeneratedId(t) == SessionNames[(t \div TicksPerSecond) + 1]

\* session_memory[session_id][-20:], taken when there are more than 20
LastMessages_keeping_the_first(history) ==
  IF Len(history) > HistoryLimit THEN SubSeq(history, 1, HistoryLimit) ELSE history

LastMessages(history) ==
  IF Len(history) > HistoryLimit
  THEN SubSeq(history, Len(history) - HistoryLimit + 1, Len(history))
  ELSE history

\* if session_id not in session_memory: session_memory[session_id] = []
Created(memory, session_id) ==
  IF session_id \in DOMAIN memory THEN memory ELSE memory @@ (session_id :> <<>>)

\* the two messages a chat request appends
Exchange(message, response, t) ==
  <<[role |-> "user", content |-> message, timestamp |-> t],
    [role |-> "assistant", content |-> response, timestamp |-> t]>>

\* result.get('answer', ...)
answer_of(response) ==
  IF "answer" \in DOMAIN response THEN response.answer ELSE <<"error", "default">>

ApiEnvs ==
  {[llm |-> Plain("course_inquiry"), handler |-> "reply_template", log |-> "ok"]}
Messages == {"hoc phi AWS?"}
ClientSessionIds == {"a"}

ApiInit ==
  /\ NoPipeline
  /\ routing_chain \in {Imported, NotImported}
  /\ session_memory = <<>>
  /\ now = 0
  /\ arrived = <<>>
  /\ returned = <<>>

\* POST /api/chat
ApiChat ==
  /\ now < MaxRequests
  /\ \E message \in Messages, given \in ClientSessionIds \cup {None}, env \in ApiEnvs :
       \A session_id \in {IF given = None THEN GeneratedId(now) ELSE given} :
       \A out \in {RoutingChain_chat(routing_chain, message, session_id, TRUE, env)} :
         IF out.response = Raised
         THEN /\ session_memory' = Created(session_memory, session_id)
              /\ arrived' = Created(arrived, session_id)
         ELSE /\ session_memory' =
                   [Created(session_memory, session_id) EXCEPT ![session_id] =
                      LastMessages(@ \o Exchange(message, answer_of(out.response), now))]
              /\ arrived' =
                   [Created(arrived, session_id) EXCEPT ![session_id] =
                      @ \o Exchange(message, answer_of(out.response), now)]
  /\ now' = now + 1
  /\ UNCHANGED <<pipeline, routing_chain, returned>>

\* GET /api/conversations/{session_id}
GetConversation ==
  /\ \E session_id \in ClientSessionIds \cup DOMAIN session_memory :
       session_memory' = session_memory
  /\ UNCHANGED <<pipeline, routing_chain, now, arrived, returned>>

\* DELETE /api/conversations/{session_id}
ClearConversation ==
  /\ \E session_id \in ClientSessionIds \cup DOMAIN session_memory :
       /\ session_memory' = [s \in DOMAIN session_memory \ {session_id} |-> session_memory[s]]
       /\ arrived' = [s \in DOMAIN arrived \ {session_id} |-> arrived[s]]
  /\ UNCHANGED <<pipeline, routing_chain, now, returned>>

ApiNext ==
  \/ ApiChat
  \/ GetConversation
  \/ ClearConversation

ApiSpec == ApiInit /\ [][ApiNext]_vars

(***************************************************************************)
(* Properties                                                              *)
(***************************************************************************)
Extracted == pc \in {"extracted", "loaded", "failed"}
Located == pc \in {"located", "extracted", "loaded", "failed"}
HasSections == DOMAIN course_info # {}
SectionKeys == {"section1_intro_duration", "section2_objectives_audience",
                "section3_content"}
\* sub occurs in t; a occurs in t and b occurs after it
Occurs(t, sub, p) == p + Len(sub) - 1 <= Len(t) /\ SubSeq(t, p, p + Len(sub) - 1) = sub
Contains(t, sub) == \E p \in 1..Len(t) : Occurs(t, sub, p)
InOrder(t, a, b) ==
  \E p \in 1..Len(t), q \in 1..Len(t) : Occurs(t, a, p) /\ q >= p + Len(a) /\ Occurs(t, b, q)
ThreeSections ==
  /\ DOMAIN course_info = SectionKeys
  /\ \A k \in SectionKeys : Width(course_info[k]) > 0

\* C1, as the specification states it: for every input text of at least 100
\* characters extract_course_info returns exactly three sections, each with
\* non-empty text.
C1_AsStated == (Extracted /\ Width(text) >= MinTextLen) => ThreeSections

\* C1, with the length taken after stripping whitespace: for every input
\* text whose whitespace-stripped length is at least 100 characters,
\* extract_course_info returns exactly the three sections intro_duration,
\* objectives_audience and content, each with non-empty text.
C1_ThreeNonEmptySections ==
  (Extracted /\ Width(Strip(text)) >= MinTextLen) => ThreeSections

\* a document that starts with blanks, is long enough after stripping, and
\* has been extracted into three sections
C1_Witness ==
  /\ Extracted
  /\ Width(text) > Width(Strip(text))
  /\ Width(Strip(text)) >= MinTextLen
  /\ ThreeSections

\* C2: for a text of at least 100 characters with no recognizable section
\* header, the three sections are three contiguous pieces of the normalized
\* text, whose lengths add up to its length and each differ from a third of
\* it by at most one character.
C2_EqualThirds ==
  (Extracted /\ HasSections /\ \A i \in 1..Len(spans) : ~spans[i].found) =>
    LET n == Width(cleaned)
        w == [k \in SectionKeys |-> Width(course_info[k])]
    IN /\ w["section1_intro_duration"] + w["section2_objectives_audience"]
            + w["section3_content"] = n
       /\ \A k \in SectionKeys : 3 * w[k] >= n - 3 /\ 3 * w[k] <= n + 3
       /\ Occurs(cleaned, course_info["section1_intro_duration"], 1)

\* the text has a duration line followed by the heading "Hình thức đào tạo"
DurationThenFormat(t) ==
  Found(Search(L("Thoi luong") \o DotLazy \o L("\n")
                 \o Opt(C("roman") \o Greedy("roman") \o L(".") \o Ws0)
                 \o Lits(<<"Hinh thuc", " ", "dao tao">>), t, 1))
FormatWords == {"truc tuyen", "Zoom", "giang vien"}

\* C3: for any text in which a duration statement is immediately followed by
\* a "Hình thức đào tạo" heading and body, the intro_duration section
\* contains no text of that body, whichever branch produced the section.
C3_NoFormatInIntro ==
  (Extracted /\ HasSections /\ DurationThenFormat(text)) =>
    LET s == course_info["section1_intro_duration"]
    IN \A i \in 1..Len(s) : Kind(s[i]) \notin FormatWords

\* C4: every input line that holds both a company address or contact pattern
\* and a course-structure keyword is kept verbatim by clean_text.
C4_LineKeptVerbatim ==
  pc = "cleaned" =>
    LET lines == SplitLines(text, 1)
    IN \A i \in 1..Len(lines) :
         (Strip(lines[i]) # <<>> /\ AnyMatches(isolated_patterns, lines[i])
            /\ AnyMatches(course_structure_keywords, lines[i]))
           => Contains(cleaned, Strip(lines[i]))

\* C5: clean_text is idempotent: clean_text(clean_text(x)) = clean_text(x)
\* for every input text x.
C5_Idempotent == pc = "recleaned" => recleaned = cleaned

\* C6: for any cleaned text with the heading "II. Thời lượng" and, 40
\* characters later, the heading "III. Hình thức", the span located for the
\* duration raw section ends before "III. Hình thức" begins.
C6_DurationEndsBeforeFormat ==
  Located =>
    LET P2 == {p \in 1..Len(cleaned) :
                 M(Lits(<<"I", "I", ".", " ", "Thoi luong">>), cleaned, p) # 0}
        P3 == {q \in 1..Len(cleaned) :
                 M(Lits(<<"I", "I", "I", ".", " ", "Hinh thuc">>), cleaned, q) # 0}
    IN \A p \in P2, q \in P3 :
         Off(cleaned, q) - Off(cleaned, p) = 40 =>
           (spans[2].found /\ spans[2].end <= q)

\* C7: in the content section every "Module N" / "Chương N" occurrence
\* starts on its own line (is preceded by a line break).
C7_ModulesOnOwnLines ==
  (Extracted /\ HasSections) =>
    LET c == course_info["section3_content"]
    IN \A p \in 1..Len(c) :
         (Kind(c[p]) \in {"Module", "Chuong"}
            /\ RunEnd(c, "digit", RunEnd(c, "ws", p + 1)) > RunEnd(c, "ws", p + 1))
           => (p = 1 \/ c[p - 1] = NL)

\* the text has the five headed sections I. Giới thiệu, II. Thời lượng,
\* III. Mục tiêu khóa học, IV. Đối tượng tham gia, V. Nội dung khóa học with
\* the bodies of Scenario, in this order
FiveHeaded(t) == Contains(t, Scenario)

\* C8: for a document with the five headed sections in that order,
\* intro_duration holds the introduction body and then the duration body,
\* objectives_audience holds the objectives body and then the audience body,
\* and no text of a later headed section (its numeral, its heading or its
\* body) is in an earlier slot.
C8_FiveSectionsMapped ==
  (Extracted /\ HasSections /\ FiveHeaded(text)) =>
    LET s1 == course_info["section1_intro_duration"]
        s2 == course_info["section2_objectives_audience"]
    IN /\ InOrder(s1, IntroBody, DurationBody)
       /\ InOrder(s2, ObjectivesBody, AudienceBody)
       /\ \A i \in 1..Len(s1) :
            Kind(s1[i]) \notin {"I", "V", "Muc tieu", "Doi tuong", "Developer", "Module"}
       /\ \A i \in 1..Len(s2) : Kind(s2[i]) \notin {"I", "V", "Noi dung", "Module"}

\* C9, as the specification states it: extract_course_info returns an empty
\* result exactly for the inputs that are empty or shorter than 100
\* characters.
C9_AsStated == Extracted => (~HasSections <=> Width(text) < MinTextLen)

\* C9, with the length taken after stripping whitespace: extract_course_info
\* returns an empty result (no sections, no placeholders) exactly for the
\* inputs that are empty or whose whitespace-stripped length is below 100
\* characters.
C9_EmptyIffShort ==
  Extracted => (~HasSections <=> Width(Strip(text)) < MinTextLen)

\* a document of 100 characters or more, most of them leading blanks, for
\* which the result is empty
C9_Witness ==
  /\ Extracted
  /\ Width(text) >= MinTextLen
  /\ Width(Strip(text)) < MinTextLen
  /\ ~HasSections

ThreeRecords ==
  /\ Len(documents) = 3
  /\ documents[1].section = "section1_intro_duration"
  /\ documents[1].section_title = "Gioi thieu va Thoi luong"
  /\ documents[2].section = "section2_objectives_audience"
  /\ documents[2].section_title = "Muc tieu va Doi tuong"
  /\ documents[3].section = "section3_content"
  /\ documents[3].section_title = "Noi dung Khoa hoc"

\* C10, as the specification states it: for every source document it
\* processes load_pdf_file emits exactly three records, in slot order, each
\* with the fixed title of its slot.
C10_AsStated == pc = "loaded" => ThreeRecords

\* C10, with the documents it holds for: load_pdf_file emits exactly three
\* records, in the slot order intro_duration, objectives_audience, content
\* and with the fixed titles, for every document that is read without error
\* and whose whitespace-stripped text has at least 100 characters; for
\* a shorter document it emits only "raw_content" chunks, at most one per
\* page here and none when no page has more than 50 cleaned characters; and
\* it emits nothing when the file cannot be read.
C10_ThreeRecordsOrChunks ==
  /\ pc = "loaded" =>
       IF Width(Strip(text)) >= MinTextLen THEN ThreeRecords
       ELSE /\ Len(documents) <= Len(pages)
            /\ \A i \in 1..Len(documents) :
                 /\ documents[i].section = "raw_content"
                 /\ Width(documents[i].page_content) > MinPageLen
  /\ pc = "failed" => documents = <<>>

\* a document of several pages loaded into the three records, the first of
\* them holding the intro_duration section extracted from it
C10_Witness ==
  /\ pc = "loaded"
  /\ Len(pages) > 1
  /\ ThreeRecords
  /\ documents[1].page_content = course_info["section1_intro_duration"]

\* the records handed to _upload_document_section for the files handled so far
Handed ==
  UNION {{processed[i].handed[j] : j \in 1..Len(processed[i].handed)} :
           i \in 1..Len(processed)}
MetadataKeys == {"source", "course_name", "section", "section_title", "section_type"}

JustExtracted == pc = "extracted" /\ HasSections
Matches(res, t) == FirstMatch(res, t, 1)[1] # 0
\* nothing is found for a slot: its Step-2 patterns give no text (none of them
\* matches, or what is left of the match once it is stripped and its header is
\* cut off is empty) and none of its secondary patterns matches
NothingFound1(t) ==
  intro_text(t) = <<>> /\ duration_text(t) = <<>> /\ ~Matches(meaningful_patterns, t)
NothingFound2(t) ==
  /\ objectives_text(t) = <<>> /\ audience_text(t) = <<>> /\ prereq_text(t) = <<>>
  /\ ~Matches(fallback_patterns, t)
NothingFound3(t) == content_text(t) = <<>> /\ ~Matches(module_patterns, t)

\* C12, as the specification states it: a slot for which nothing is found is
\* output as its placeholder sentence, and a slot for which some candidate
\* pattern matched the text is never output as the placeholder.
C12_AsStated ==
  JustExtracted =>
    /\ NothingFound1(recleaned) => course_info["section1_intro_duration"] = Placeholder1
    /\ NothingFound2(recleaned) =>
         course_info["section2_objectives_audience"] = Placeholder2
    /\ NothingFound3(recleaned) => course_info["section3_content"] = Placeholder3
    /\ (Matches(intro_patterns, recleaned) \/ Matches(duration_patterns, recleaned))
         => course_info["section1_intro_duration"] # Placeholder1
    /\ (\/ Matches(objectives_patterns, recleaned) \/ Matches(audience_patterns, recleaned)
        \/ Matches(prereq_patterns, recleaned))
         => course_info["section2_objectives_audience"] # Placeholder2
    /\ Matches(content_patterns, recleaned) => course_info["section3_content"] # Placeholder3

\* C12, with the match replaced by the text it leaves: a slot is output as its
\* fixed placeholder sentence exactly when nothing is found for it (its Step-2
\* patterns leave no text once the match is stripped and its header cut off,
\* and none of its secondary patterns matches), and each slot is what its own
\* extractor gives for the text, whatever became of its siblings.
C12_PlaceholderIffNothingFound ==
  JustExtracted =>
    /\ course_info["section1_intro_duration"] = Placeholder1 <=> NothingFound1(recleaned)
    /\ course_info["section2_objectives_audience"] = Placeholder2
         <=> NothingFound2(recleaned)
    /\ course_info["section3_content"] = Placeholder3 <=> NothingFound3(recleaned)
    /\ course_info["section1_intro_duration"] = _extract_precise_section1(recleaned)
    /\ course_info["section2_objectives_audience"] = _extract_precise_section2(recleaned)

\* a text whose content slot is extracted while nothing is found for the two
\* other slots, which are output as their placeholders
C12_Witness ==
  /\ JustExtracted
  /\ NothingFound1(recleaned) /\ NothingFound2(recleaned) /\ ~NothingFound3(recleaned)
  /\ course_info["section1_intro_duration"] = Placeholder1
  /\ course_info["section2_objectives_audience"] = Placeholder2
  /\ Contains(course_info["section3_content"], <<P(10), Tok(".")>>)

\* one of the records load_pdf_file returned is a slot filled by the
\* structured extraction: a record of the three sections whose text is not
\* the placeholder of a slot
StructurallyFilled(loaded) ==
  \E i \in 1..Len(loaded) :
    /\ loaded[i].section \in SectionKeys
    /\ loaded[i].page_content \notin {Placeholder1, Placeholder2, Placeholder3}

\* C13: the equal-thirds split is a decision on the whole document.  When it
\* is applied to a file, all the records handed on are the sections of the
\* split and none is a record of the structured extraction; when it is not,
\* the records handed on are those load_pdf_file returned; and it is never
\* applied to a file one of whose slots the structured extraction filled.
C13_AllOrNothing ==
  \A i \in 1..Len(processed) :
    /\ processed[i].tier = "fallback" =>
         /\ processed[i].handed = _create_fallback_sections(full_text(TopicFolder(pages)[i]))
         /\ ~StructurallyFilled(processed[i].loaded)
    /\ processed[i].tier = "loaded" => processed[i].handed = processed[i].loaded
    /\ processed[i].tier \notin {"fallback", "loaded"} => processed[i].handed = <<>>

\* a document of which only the content slot was filled, in fewer characters
\* than count as meaningful content, has been handled: its three records were
\* handed on as load_pdf_file returned them, not split
C13_Witness ==
  /\ Len(processed) = 2
  /\ processed[2].tier = "loaded"
  /\ Len(processed[2].handed) = 3
  /\ StructurallyFilled(processed[2].loaded)
  /\ ~should_process_meaningful_only(processed[2].loaded)
  /\ has_raw_content(text)

Outcomes == {"empty", "skipped", "error", "uploaded", "nothing uploaded"}

\* C14: no exception escapes.  A file PyPDFLoader cannot read makes
\* load_pdf_file return the empty list, and every file of the folder ends in
\* one of the outcomes the loop prints (empty content, skipped, error,
\* uploaded, nothing uploaded), never in an exception that leaves the loop, so
\* that the loop goes on to the files that remain.
C14_NoExceptionEscapes ==
  /\ pc = "failed" => documents = <<>>
  /\ \A i \in 1..Len(processed) : processed[i].outcome \in Outcomes

\* reading the first file again raised, and the file after it was processed
\* all the same: its three records were handed to the upload
C14_Witness ==
  /\ Len(processed) = 2
  /\ text # <<>>
  /\ processed[1].outcome = "error"
  /\ processed[2].outcome = "uploaded" /\ Len(processed[2].handed) = 3

\* the names of the extraction tiers
ExtractionTiers == {"structured", "partial", "fallback-equal-split"}

\* C15: every one of the three section records of a loaded document carries,
\* among its metadata, the name of the extraction tier that produced it
\* (structured, partial or fallback-equal-split).
C15_TierInMetadata ==
  (pc = "loaded" /\ ThreeRecords) =>
    \A i \in 1..Len(documents) :
      \E k \in DOMAIN documents[i] \ {"page_content"} : documents[i][k] \in ExtractionTiers

\* C16: no operation writes to the section configuration of the extractor or
\* to the pattern table of its cleaner, so a file of the folder processed at
\* any point between the operations on another document comes out as it does
\* on its own, and the document loaded within the folder comes out as the
\* document loaded alone.
C16_NoSharedMutableState ==
  /\ extractor = CourseInfoExtractor
  /\ processed # <<>> => processed[1].loaded \in {<<>>, load_pdf_file(NoticeFile)}
  /\ (pc = "loaded" /\ Len(processed) = 2) => processed[2].loaded \in {<<>>, documents}

\* the folder run read its first file after the document had been cleaned and
\* its sections extracted, and then loaded the document into three records
C16_Witness ==
  /\ pc = "loaded" /\ ThreeRecords
  /\ Len(processed) = 2
  /\ processed[1].loaded # <<>>
  /\ processed[2].loaded = documents

\* find_section_boundaries has just returned the spans of the five sections
JustLocated == pc = "located" /\ text_spans # <<>>

\* the keyword stands at the line that begins at position q of t (the start of
\* the text, or a line break), after blanks and at most one bullet
KeywordAtLine(t, keyword, q) ==
  LET Indented == Ws0 \o Opt(Alt(<<L("bullet"), L("-"), L("*")>>)) \o Ws0 \o keyword
  IN \/ q = 1 /\ M(Indented, t, 1) # 0
     \/ q <= Len(t) /\ t[q] = NL /\ M(Indented, t, q + 1) # 0
KeywordLines(t, keyword) == {q \in 1..Len(t) : KeywordAtLine(t, keyword, q)}

\* span is what the declared order gives for t: the leftmost match of the
\* first start pattern that matches anywhere; failing every pattern, the first
\* line of the first keyword that stands at some line; failing those, nothing
InDeclaredOrder(span, config, t) ==
  \A pats \in {{k \in 1..Len(config.patterns) : Found(Search(config.patterns[k], t, 1))}} :
    \A kws \in {{k \in 1..Len(config.keywords) : KeywordLines(t, config.keywords[k]) # {}}} :
      /\ pats # {} =>
           /\ span.found /\ span.method = "pattern"
           /\ span.start = Search(config.patterns[Min(pats)], t, 1)[1]
      /\ (pats = {} /\ kws # {}) =>
           /\ span.found /\ span.method = "keyword"
           /\ span.start = Min(KeywordLines(t, config.keywords[Min(kws)]))
      /\ (pats = {} /\ kws = {}) => ~span.found

\* C17: find_section_boundaries takes the start from the first start pattern,
\* in declared order, that matches (method pattern); only when none matches
\* from the first keyword, in declared order, that stands at the start of some
\* line of the text (method keyword); and finds nothing when neither matches.
C17_PatternsThenKeywords ==
  JustLocated =>
    \A i \in 1..Len(SectionNames) :
      /\ InDeclaredOrder(text_spans[i], extractor.section_configs[SectionNames[i]], text)
      /\ InDeclaredOrder(spans[i], extractor.section_configs[SectionNames[i]], cleaned)

\* the objectives were found by the second of their patterns, the audience by
\* the third of its keywords, bulleted on a later line, the overview not at all
C17_Witness ==
  /\ JustLocated
  /\ text_spans[3].method = "pattern"
  /\ ~Found(Search(extractor.section_configs["objectives"].patterns[1], text, 1))
  /\ text_spans[4].method = "keyword"
  /\ text_spans[4].start > 1 /\ text[text_spans[4].start] = NL
  /\ KeywordLines(text, extractor.section_configs["audience"].keywords[1]) = {}
  /\ ~text_spans[1].found

\* kinds whose string begins with a small letter
SmallInitial ==
  {"p", "dao tao", "khoa hoc", "tham gia", "hoc vien", "gio", "ngay", "tuan", "thang",
   "giup", "cung cap", "trang bi", "co the", "nam", "hieu", "se", "chinh", "www", "vn",
   "of", "ve", "la", "va", "mo ta", "thoi gian", "trinh", "khoa hoc alt", "to",
   "kien thuc", "kinh nghiem", "co ban", "nen tang", "chi tiet", "tien quyet", "truoc",
   "vung", "trien khai", "du lieu", "u lieu", "gi", "hoc", "truc tuyen", "giang vien",
   "oc", "d", "h", "o-grave", "o-dot"}
Capitalised(tok) == IsWord(tok) /\ Kind(tok) \notin SmallInitial

\* positions of t, at character offset off or later, where one of res matches
MatchesFrom(res, t, off) ==
  {q \in 1..Len(t) : Off(t, q) >= off /\ \E k \in 1..Len(res) : M(res[k], t, q) # 0}
\* a line break followed by a numbered heading that begins with a capital
\* letter, and the generic boundaries when the numbered heading has to be one
NumberedCapital(t, q) ==
  /\ t[q] = NL
  /\ \E r \in {M(Ws0 \o NumberDot \o Ws0, t, q + 1)} :
       r # 0 /\ r <= Len(t) /\ AsciiStart(t[r]) /\ Capitalised(t[r])
CapitalisedBoundariesFrom(t, off) ==
  {q \in 1..Len(t) : Off(t, q) >= off /\ (M(generic_stops[1], t, q) # 0 \/ NumberedCapital(t, q))}

\* the end of span is the least of the end of t and the given stops
EndIsLeast(span, t, stops) ==
  span.found => span.end = Min({Len(t) + 1} \cup stops)
\* the offsets of span: its start, its end and where a slice of t ends
SpanStart(span, t) == Off(t, span.start)

Step2Slot1(t) ==
  JoinParts((IF intro_text(t) # <<>> THEN << TongQuanKhoaHoc \o intro_text(t) >> ELSE <<>>)
              \o (IF duration_text(t) # <<>> THEN << ThoiLuongLabel \o duration_text(t) >>
                  ELSE <<>>))
Step2Slot2(t) ==
  JoinParts((IF objectives_text(t) # <<>> THEN << MucTieuKhoaHoc \o objectives_text(t) >>
             ELSE <<>>)
              \o (IF audience_text(t) # <<>> THEN << DoiTuongThamGia \o audience_text(t) >>
                  ELSE <<>>)
              \o (IF prereq_text(t) # <<>> THEN << DieuKienTienQuyet \o prereq_text(t) >>
                  ELSE <<>>))
Step2Slot3(t) == content_text(t)
\* a Step-2 result of at least n characters is the output of the slot, label
\* put before it
KeptFrom(n, result, label, output) == Width(Strip(result)) >= n => output = label \o result
\* a shorter one gives way to the text of the first secondary pattern that
\* matches
Secondary(n, result, res, t, label, output) ==
  (Width(Strip(result)) < n /\ Matches(res, t)) =>
    output = label \o Strip(MatchText(t, FirstMatch(res, t, 1)))

\* C19 as stated: for each of the three slots a Step-2 result of 50 characters
\* or more is output unchanged, never replaced by a secondary-pattern match.
C19_AsStated ==
  JustExtracted =>
    /\ KeptFrom(MinSlotLen, Step2Slot1(recleaned), <<>>,
                course_info["section1_intro_duration"])
    /\ KeptFrom(MinSlotLen, Step2Slot2(recleaned), <<>>,
                course_info["section2_objectives_audience"])
    /\ KeptFrom(MinSlotLen, Step2Slot3(recleaned), NoiDungKhoaHoc,
                course_info["section3_content"])

\* C19: the secondary patterns of a slot are tried only when its Step-2
\* result is shorter than 50 characters for the first two slots (labels
\* counted) and shorter than 100 characters for the content slot (label not
\* counted); a longer Step-2 result is output unchanged, and a shorter one of
\* the first two slots gives way to the first secondary pattern that matches.
C19_SecondaryOnlyWhenShort ==
  JustExtracted =>
    /\ KeptFrom(MinSlotLen, Step2Slot1(recleaned), <<>>,
                course_info["section1_intro_duration"])
    /\ KeptFrom(MinSlotLen, Step2Slot2(recleaned), <<>>,
                course_info["section2_objectives_audience"])
    /\ KeptFrom(MinContentLen, Step2Slot3(recleaned), NoiDungKhoaHoc,
                course_info["section3_content"])
    /\ Secondary(MinSlotLen, Step2Slot1(recleaned), meaningful_patterns, recleaned,
                 TongQuanKhoaHoc, course_info["section1_intro_duration"])
    /\ Secondary(MinSlotLen, Step2Slot2(recleaned), fallback_patterns, recleaned,
                 DoiTuongVaYeuCau, course_info["section2_objectives_audience"])

\* a content of 50 to 99 characters was replaced by the text from the module
\* anchor, while the second slot, 50 characters or more, was output as it was
\* although one of its fallback patterns matches the text
C19_Witness ==
  /\ JustExtracted
  /\ Width(Strip(Step2Slot2(recleaned))) >= MinSlotLen
  /\ Matches(fallback_patterns, recleaned)
  /\ course_info["section2_objectives_audience"] = Step2Slot2(recleaned)
  /\ Width(Strip(Step2Slot3(recleaned))) >= MinSlotLen
  /\ Width(Strip(Step2Slot3(recleaned))) < MinContentLen
  /\ course_info["section3_content"] # NoiDungKhoaHoc \o Step2Slot3(recleaned)
  /\ course_info["section3_content"] # Placeholder3

\* the content slot is taken from a module anchor: the Step-2 content is
\* shorter than MinContentLen and one of the module patterns matches
FromModuleAnchor(t) ==
  Width(Strip(Step2Slot3(t))) < MinContentLen /\ Matches(module_patterns, t)
\* captured is the first n characters of rest, or all of rest if it has fewer:
\* the same lexemes, the last one possibly cut
IsCappedPrefix(captured, rest, n) ==
  /\ Width(captured) = Min({n, Width(rest)})
  /\ Len(captured) <= Len(rest)
  /\ \A k \in 1..Len(captured) :
       \/ captured[k] = rest[k]
       \/ k = Len(captured) /\ captured[k][2] < rest[k][2]
\* the part of the output after its label, and the text from the anchor on
AfterLabel(output) == SubSeq(output, Len(NoiDungKhoaHoc) + 1, Len(output))
FromAnchor(t) == SubSeq(t, FirstMatch(module_patterns, t, 1)[2], Len(t))

Flat(t) == Concat([i \in 1..Len(t) |-> [j \in 1..t[i][2] |-> Kind(t[i])]])
\* str.strip() on characters
FlatStrip(cs) ==
  LET Between(S) == IF S = {} THEN <<>> ELSE SubSeq(cs, Min(S), Max(S))
  IN Between({q \in 1..Len(cs) : cs[q] \notin {" ", "\n"}})
\* the three thirds of cs, the last one taking the remainder, each stripped
StrippedThirds(cs, part) ==
  <<FlatStrip(SubSeq(cs, 1, part)), FlatStrip(SubSeq(cs, part + 1, 2 * part)),
    FlatStrip(SubSeq(cs, 2 * part + 1, Len(cs)))>>
FallbackSectionNames ==
  <<"section1_intro_duration", "section2_objectives_audience", "section3_content_modules">>
\* the records are those of the non-empty among thirds, in their order
RecordsOf(records, thirds) ==
  \A kept \in {Sorted({k \in 1..3 : thirds[k] # <<>>})} :
    /\ Len(records) = Len(kept)
    /\ \A i \in 1..Len(kept) :
         /\ Flat(records[i].page_content) = thirds[kept[i]]
         /\ records[i].section = FallbackSectionNames[kept[i]]
JustSplit == pc = "_create_fallback_sections"

NonBlankLines(t) ==
  {i \in 1..Len(SplitLines(t, 1)) : Strip(SplitLines(t, 1)[i]) # <<>>}
\* no two blanks in a row and no three line ends in a row
RunsCollapsed(t) ==
  /\ \A q \in 1..Len(t) : Kind(t[q]) = " " => t[q][2] = 1
  /\ \A q \in 1..(Len(t) - 1) : ~(Kind(t[q]) = " " /\ Kind(t[q + 1]) = " ")
  /\ \A q \in 1..(Len(t) - 2) : ~(t[q] = NL /\ t[q + 1] = NL /\ t[q + 2] = NL)

\* C22: normalize_whitespace leaves no run of blanks longer than one and no
\* run of line ends longer than two, and the line breaks of the input are
\* still line breaks: the text that stood on separate lines still does.
C22_LineBreaksKept ==
  pc = "normalize_whitespace" =>
    /\ RunsCollapsed(cleaned)
    /\ Cardinality(NonBlankLines(cleaned)) = Cardinality(NonBlankLines(text))

\* the text before the last step of clean_text
BeforeLastStep(t) ==
  standardize_formatting(normalize_whitespace(FilterCharacters(
    remove_company_noise(fix_vietnamese_encoding(t)))))
\* some line of t has at least MinLineLen characters once it is stripped
SomeLineSurvives(t) ==
  \E i \in 1..Len(SplitLines(t, 1)) : Width(Strip(SplitLines(t, 1)[i])) >= MinLineLen
JustCleaned == pc = "cleaned"

\* C23: the output of clean_text has no line of fewer than 10 characters and
\* no whitespace at its ends, and it is empty exactly when no line of 10
\* characters or more is left for its last step to keep.
C23_NoShortLine ==
  JustCleaned =>
    /\ cleaned = Strip(cleaned)
    /\ cleaned # <<>> =>
         \A i \in 1..Len(SplitLines(cleaned, 1)) :
           Width(SplitLines(cleaned, 1)[i]) >= MinLineLen
    /\ cleaned = <<>> <=> (text = <<>> \/ ~SomeLineSurvives(BeforeLastStep(text)))

\* a text of two lines, 5 letters and "bbb.": its 10 characters come out as
\* one line
C23_Witness ==
  /\ JustCleaned
  /\ text = <<P(5), NL, P(3), Tok(".")>>
  /\ Width(cleaned) = MinLineLen

\* the lines of t, each stripped
StrippedLines(t) == {Strip(SplitLines(t, 1)[i]) : i \in 1..Len(SplitLines(t, 1))}

\* C24: remove_incomplete_lines drops every line of more than 20 characters
\* that ends with an ellipsis: no such line of the input is among the lines
\* of its output.
C24_TruncatedLinesDropped ==
  pc = "remove_incomplete_lines" =>
    \A line \in StrippedLines(text) :
      (Width(line) > LongLineLen /\ EndsWithEllipsis(line))
        => line \notin StrippedLines(cleaned)

\* course_content_patterns of remove_company_noise: a heading or a reference
\* and what follows it up to "Trụ sở", "Chi nhánh" or the end of the text
CourseContentEnd == AnyLazy \o Look(<<L("Tru so"), L("Chi nhanh"), Eos>>)
course_content_patterns == <<
  RomanI \o Ws0 \o L("Gioi thieu") \o CourseContentEnd,
  RomanII \o Ws0 \o L("Thoi luong") \o CourseContentEnd,
  RomanIII \o Ws0 \o L("Muc tieu") \o CourseContentEnd,
  RomanIV \o Ws0 \o L("Doi tuong") \o CourseContentEnd,
  RomanV \o Ws0 \o L("Yeu cau") \o CourseContentEnd,
  RomanVI \o Ws0 \o L("Noi dung") \o CourseContentEnd,
  L("khoa hoc") \o CourseContentEnd,
  Alt(<<L("Module"), L("Chuong")>>) \o Ws0 \o Dig1 \o CourseContentEnd >>
\* re.findall(pattern, text): the matches from position p on, left to right
RECURSIVE FindAll(_, _, _)
FindAll(re, t, p) ==
  LET After(s) ==
        IF ~Found(s) THEN {}
        ELSE {SubSeq(t, s[1], s[2] - 1)}
               \cup (IF s[2] > Len(t) THEN {}
                     ELSE FindAll(re, t, IF s[2] = s[1] THEN s[2] + 1 ELSE s[2]))
  IN After(Search(re, t, p))
\* preserved_content: the blocks captured before the deletion passes
preserved_content(t) ==
  UNION {FindAll(course_content_patterns[k], t, 1) : k \in 1..Len(course_content_patterns)}

\* C25: every block that remove_company_noise captures as course content
\* before its deletion passes is still present, whole, in its result.
C25_CapturedBlocksKept ==
  pc = "remove_company_noise" =>
    \A block \in preserved_content(text) : Contains(cleaned, Strip(block))

(***************************************************************************)
(* The chat service                                                        *)
(***************************************************************************)
IsSuffix(s, t) == Len(s) <= Len(t) /\ s = SubSeq(t, Len(t) - Len(s) + 1, Len(t))

\* the stored histories are those of the sessions that received a request
\* since they were last cleared, each the last 20 of the messages its session
\* received since then, in their order
MostRecentStored ==
  /\ DOMAIN session_memory = DOMAIN arrived
  /\ \A s \in DOMAIN session_memory :
       /\ Len(session_memory[s]) <= HistoryLimit
       /\ Len(session_memory[s]) = Min({HistoryLimit, Len(arrived[s])})
       /\ IsSuffix(session_memory[s], arrived[s])

\* a step that removes the history of a session leaves every other history
\* as it was
ClearIsLocal ==
  \A s \in DOMAIN session_memory :
    s \notin DOMAIN session_memory' =>
      \A o \in DOMAIN session_memory \ {s} :
        o \in DOMAIN session_memory' /\ session_memory'[o] = session_memory[o]

\* C26: after any sequence of chat, get-conversation and clear-conversation
\* requests every session's stored history holds at most 20 messages, the
\* most recent ones of that session in arrival order, and clearing a session
\* removes that session's history and no other
C26_LastTwentyPerSession == []MostRecentStored /\ [][ClearIsLocal]_vars

\* a session that received 22 messages and stores 20 of them
C26_Witness ==
  \E s \in DOMAIN session_memory :
    Len(arrived[s]) > HistoryLimit /\ Len(session_memory[s]) = HistoryLimit

Called == DOMAIN returned # {}
Routed == Called /\ routing_chain = Imported /\ returned.env.handler # "raises"
\* the same call with the log failing, and with the log working
WithLog(log) ==
  RoutingChain_chat(routing_chain, returned.user_input, returned.session_id,
                    returned.enable_logging, [returned.env EXCEPT !.log = log])

\* C27: RoutingChain.chat never raises and returns a response with an intent
\* and an answer; when the classifier fails or answers a label that is not a
\* configured intent the request is handled as general_inquiry; an intent
\* without a handler method goes to handle_general_inquiry; an exception in
\* the handler gives the error response, of intent "error"; and the response
\* is the same whether the log fails or not
C27_AlwaysAResponse ==
  /\ Called =>
       /\ returned.out.response # Raised
       /\ {"intent", "answer"} \subseteq DOMAIN returned.out.response
       /\ WithLog("raises").response = returned.out.response
       /\ WithLog("ok").response = returned.out.response
  /\ Routed /\ returned.env.llm = Raised =>
       returned.out.response.intent = "general_inquiry"
  /\ Routed /\ returned.env.llm # Raised =>
       returned.out.response.intent =
         IF returned.env.llm.word \in INTENTS_CONFIG THEN returned.env.llm.word
         ELSE "general_inquiry"
  /\ \A outcome \in {"answer", "reply_template"} :
       \A intent \in (INTENTS_CONFIG \cup {"weather"}) \ IntentHandler :
         handler_method(intent, outcome) = handle("general_inquiry", outcome)
  /\ Called /\ routing_chain = Imported /\ returned.env.handler = "raises" =>
       /\ returned.out.response.intent = "error"
       /\ returned.out.response = error_response(returned.user_input, returned.session_id)

\* a call whose classifier answers a label that is no configured intent and
\* whose log fails: it is answered by the general-inquiry handler
C27_Witness ==
  /\ Routed
  /\ returned.enable_logging
  /\ returned.env.llm = Plain("weather")
  /\ returned.env.log = "raises"
  /\ returned.out.logged = <<>>
  /\ returned.out.response.intent = "general_inquiry"

\* raw-section mappings other than the one Step 1 finds: none of the five
\* found, and all five found with a content of their own
RawSectionMappings ==
  {<<>>, [i \in 1..Len(SectionNames) |-> <<P(30 + i), Tok(".")>>]}

SpanReturned(i) == pc = "find_section_boundaries" /\ i \in DOMAIN text_spans /\ text_spans[i].found

\* C29: whenever find_section_boundaries returns a span (start, end) for a
\* text, 0 <= start <= end <= len(text), and an end before the end of the
\* text lies at least 50 characters after start
C29_SpanWithinText ==
  \A i \in 1..Len(SectionNames) :
    SpanReturned(i) =>
      /\ 0 <= start_pos(text, text_spans[i])
      /\ start_pos(text, text_spans[i]) <= end_pos(text, text_spans[i])
      /\ end_pos(text, text_spans[i]) <= Width(text)
      /\ end_pos(text, text_spans[i]) < Width(text) =>
           end_pos(text, text_spans[i]) >= start_pos(text, text_spans[i]) + StopOffset

\* the records load_pdf_file returned are the three of the structured
\* extraction, or the chunks of fallback_chunking
Structured(loaded) == Len(loaded) = 3 /\ \A j \in 1..3 : loaded[j].section \in SectionKeys
Chunked(loaded) == loaded # <<>> /\ \A j \in 1..Len(loaded) : loaded[j].section = "raw_content"

\* C30: in _process_topic_folder the equal-thirds split is never reached for
\* what load_pdf_file returns: three structured records are accepted as they
\* are, placeholders or not, and a file whose records are chunks has fewer
\* than 500 characters of text, so that the split is not applied to it
C30_FallbackNeverReached ==
  \A i \in 1..Len(processed) :
    /\ processed[i].tier # "fallback"
    /\ Structured(processed[i].loaded) =>
         processed[i].tier = "loaded" /\ processed[i].handed = processed[i].loaded
    /\ Chunked(processed[i].loaded) => ~has_raw_content(full_text(TopicFolder(pages)[i]))

\* the file of chunks was rejected by the quality test and skipped for want
\* of 500 characters, and the three records of a document of 500 characters
\* or more, none of them meaningful content, were accepted as they are
C30_Witness ==
  /\ Len(processed) = 2
  /\ Chunked(processed[1].loaded)
  /\ processed[1].outcome = "skipped"
  /\ Structured(processed[2].loaded)
  /\ ~should_process_meaningful_only(processed[2].loaded)
  /\ processed[2].tier = "loaded"
  /\ has_raw_content(text)

====
